---- MODULE Spec2Model ----
(***************************************************************************)
(* Verification model of dpogoda/cliff-map.                                *)
(*                                                                         *)
(*  - the byte-range proxy route (GET / HEAD / OPTIONS handlers,           *)
(*    src/app/page.tsx:64-178)                                             *)
(*  - the tile-name deriver getCopernicusTileUrl (src/unnamed/part_000)    *)
(*                                                                         *)
(*  - the map view component DemMap (src/app/page.tsx:197-852)             *)
(*  - the slope utilities (src/lib/cliff-detector.ts:169-373)              *)
(*                                                                         *)
(* SpecProxy runs one request over every input, SpecConcurrent several     *)
(* requests together over fewer inputs, SpecTile the tile-name deriver,    *)
(* SpecMap the map view component, SpecSlope calls of the slope utilities. *)
(*                                                                         *)
(* Strings are TLA+ strings; a Headers object is a set of <<name, value>>  *)
(* pairs with at most one pair per name, names in lower case (the Headers  *)
(* class of the Fetch API is case-insensitive and normalises names).       *)
(* Headers.get yields <<>> for null and <<v>> for a value v.               *)
(* Real numbers are fixed-point integers counting tenths (512 is 51.2).    *)
(***************************************************************************)
EXTENDS Integers, Sequences, FiniteSets, TLC

VARIABLES reqs, tileArgLat, tileArgLon, tileResult, dem, call, readout

vars == <<reqs, tileArgLat, tileArgLon, tileResult, dem, call, readout>>

tileVars == <<tileArgLat, tileArgLon, tileResult>>

-----------------------------------------------------------------------------
(* The map view component before it is mounted, and no utility call made   *)

DemUnmounted ==
  [phase |-> "unmounted", mapRef |-> 0, mapCleanup |-> FALSE, insts |-> <<>>,
   protocol |-> FALSE, protocolAdds |-> 0, protocolRemoves |-> 0,
   showCliffs |-> TRUE, isCalculating |-> FALSE,
   handlerInst |-> 0, updateTimeout |-> 0, timers |-> {}]

DemIdle == dem = DemUnmounted

\* the pointer readout of both map components before any pointer event:
\* elevation and coordinates are null (the empty tuple), a present value is
\* a one-element tuple; last is the pointer event handled last
NoPointer == [elevation |-> <<>>, coordinates |-> <<>>]

NoEvent == [event |-> "none", component |-> "none", lngLat |-> <<>>, elev |-> <<>>]

ReadoutIdle == readout = [page |-> NoPointer, demMap |-> NoPointer, last |-> NoEvent]

NoCall == [fn |-> "none"]

CallIdle == call = NoCall

-----------------------------------------------------------------------------
(* Bounds of the model                                                     *)

\* number of proxy requests that may be in flight together
MaxRequests == 2

\* longest catch-all path (number of segments) of a proxy request
MaxPathLen == 2

\* latitudes and longitudes given to the tile-name deriver reach this many
\* whole degrees either side of zero
MaxLatDeg == 101

MaxLonDeg == 1001

-----------------------------------------------------------------------------
(* Headers objects                                                         *)

NoHeaders == {}

HeadersGet(h, name) ==
  IF \E p \in h : p[1] = name
  THEN <<(CHOOSE p \in h : p[1] = name)[2]>>
  ELSE <<>>

HeadersSet(h, name, value) ==
  {p \in h : p[1] # name} \cup {<<name, value>>}

HeaderNames(h) == {p[1] : p \in h}

\* JavaScript truthiness of the result of Headers.get: null and "" are falsy
Truthy(got) == got # <<>> /\ got[1] # ""

\* `if (v) headers.set(name, v)`
SetIfTruthy(h, name, got) ==
  IF Truthy(got) THEN HeadersSet(h, name, got[1]) ELSE h

-----------------------------------------------------------------------------
(* Bodies and responses                                                    *)

\* a body is <<kind, content>>
NullBody == <<"null", "">>

JsonError(msg) == <<"json", msg>>

StreamBody(data) == <<"stream", data>>

MakeResponse(status, headers, body) ==
  [status |-> status, headers |-> headers, body |-> body]

\* NextResponse.json(obj, {status}): a JSON body and a content-type header
NextResponseJson(msg, status) ==
  MakeResponse(status, {<<"content-type", "application/json">>}, JsonError(msg))

NoResponse == MakeResponse(0, NoHeaders, NullBody)

\* the four CORS headers the route talks about
CorsHeaders ==
  { <<"access-control-allow-origin", "*">>,
    <<"access-control-allow-methods", "GET, HEAD, OPTIONS">>,
    <<"access-control-allow-headers", "Range">>,
    <<"access-control-expose-headers", "Content-Range, Content-Length, Accept-Ranges">> }

-----------------------------------------------------------------------------
(* Upstream (S3) side                                                      *)

S3Origin == "https://copernicus-dem-30m.s3.amazonaws.com/"

RECURSIVE Join(_)
\* Array.prototype.join('/')
Join(path) ==
  IF Len(path) = 0 THEN ""
  ELSE IF Len(path) = 1 THEN path[1]
  ELSE path[1] \o "/" \o Join(Tail(path))

\* Response.ok narrowed to the single status 200
ResponseOk_Only200(status) == status = 200

\* Response.ok of the Fetch API: status in the range 200-299
ResponseOk(status) == status >= 200 /\ status <= 299

\* an upstream outcome: the fetch threw, or it resolved with a response
Threw == [threw |-> TRUE, status |-> 0, headers |-> NoHeaders, body |-> NullBody]

Resolved(status, headers, body) ==
  [threw |-> FALSE, status |-> status, headers |-> headers, body |-> body]

NoOutcome == [threw |-> FALSE, status |-> 0, headers |-> NoHeaders, body |-> NullBody]

\* a fetch call: fetch(url, {method, headers})
FetchCall(url, method, headers) ==
  [url |-> url, method |-> method, headers |-> headers]

-----------------------------------------------------------------------------
(* GET handler, src/app/page.tsx:70-131                                    *)

S3Url(path) == S3Origin \o Join(path)

\* a fetch that forwards no header at all
GETFetch_DropsRange(path, inHeaders) == FetchCall(S3Url(path), "GET", NoHeaders)

\* lines 84-90: the request handed to fetch
GETFetch(path, inHeaders) ==
  FetchCall(S3Url(path), "GET",
            LET rangeHeader == HeadersGet(inHeaders, "range")
            IN  IF Truthy(rangeHeader)
                THEN HeadersSet(NoHeaders, "range", rangeHeader[1])
                ELSE NoHeaders)

\* lines 92-98: the relayed upstream error
GETErrorResponse(status) ==
  NextResponseJson("S3 error: " \o ToString(status), status)

\* a relay that forgets Content-Range, as the HEAD handler does
GETSuccessResponse_NoContentRange(up) ==
  LET h3 == CorsHeaders
      h4 == SetIfTruthy(h3, "content-type", HeadersGet(up.headers, "content-type"))
      h5 == SetIfTruthy(h4, "content-length", HeadersGet(up.headers, "content-length"))
      h7 == SetIfTruthy(h5, "accept-ranges", HeadersGet(up.headers, "accept-ranges"))
  IN  MakeResponse(up.status, h7, up.body)

\* lines 100-123: the relayed success
GETSuccessResponse(up) ==
  LET h0 == HeadersSet(NoHeaders, "access-control-allow-origin", "*")
      h1 == HeadersSet(h0, "access-control-allow-methods", "GET, HEAD, OPTIONS")
      h2 == HeadersSet(h1, "access-control-allow-headers", "Range")
      h3 == HeadersSet(h2, "access-control-expose-headers",
                       "Content-Range, Content-Length, Accept-Ranges")
      h4 == SetIfTruthy(h3, "content-type", HeadersGet(up.headers, "content-type"))
      h5 == SetIfTruthy(h4, "content-length", HeadersGet(up.headers, "content-length"))
      h6 == SetIfTruthy(h5, "content-range", HeadersGet(up.headers, "content-range"))
      h7 == SetIfTruthy(h6, "accept-ranges", HeadersGet(up.headers, "accept-ranges"))
  IN  MakeResponse(up.status, h7, up.body)

\* a catch block answering 502 instead of 500
GETCatchResponse_BadGateway == NextResponseJson("Failed to fetch COG file", 502)

\* lines 124-130: the catch block
GETCatchResponse == NextResponseJson("Failed to fetch COG file", 500)

\* lines 90-130: what GET answers once its fetch has settled
GETResponse(up) ==
  IF up.threw THEN GETCatchResponse
  ELSE IF ~ResponseOk(up.status) /\ up.status # 206
       THEN GETErrorResponse(up.status)
       ELSE GETSuccessResponse(up)

-----------------------------------------------------------------------------
(* HEAD handler, src/app/page.tsx:133-166                                  *)

\* line 142: the request handed to fetch
HEADFetch(path, inHeaders) == FetchCall(S3Url(path), "HEAD", NoHeaders)

\* lines 144-161
HEADRelayResponse(up) ==
  LET h0 == HeadersSet(NoHeaders, "access-control-allow-origin", "*")
      h1 == HeadersSet(h0, "access-control-allow-methods", "GET, HEAD, OPTIONS")
      h2 == HeadersSet(h1, "access-control-expose-headers",
                       "Content-Range, Content-Length, Accept-Ranges")
      h3 == SetIfTruthy(h2, "content-type", HeadersGet(up.headers, "content-type"))
      h4 == SetIfTruthy(h3, "content-length", HeadersGet(up.headers, "content-length"))
      h5 == SetIfTruthy(h4, "accept-ranges", HeadersGet(up.headers, "accept-ranges"))
  IN  MakeResponse(up.status, h5, NullBody)

\* lines 162-165: the catch block
HEADCatchResponse == NextResponseJson("Failed", 500)

HEADResponse(up) ==
  IF up.threw THEN HEADCatchResponse ELSE HEADRelayResponse(up)

-----------------------------------------------------------------------------
(* OPTIONS handler, src/app/page.tsx:168-178                               *)

\* a preflight answer with status 200 instead of 204
OPTIONSResponse_Ok200 == MakeResponse(200, CorsHeaders, NullBody)

OPTIONSResponse ==
  MakeResponse(204,
    { <<"access-control-allow-origin", "*">>,
      <<"access-control-allow-methods", "GET, HEAD, OPTIONS">>,
      <<"access-control-allow-headers", "Range">>,
      <<"access-control-expose-headers", "Content-Range, Content-Length, Accept-Ranges">> },
    NullBody)

-----------------------------------------------------------------------------
(* Requests in flight.  Each handler invocation owns one slot of reqs; the *)
(* handlers share no variable (the route module declares none).            *)

IdleRequest ==
  [pc |-> "idle", method |-> "", path |-> <<>>, headers |-> NoHeaders,
   fetches |-> <<>>, outcome |-> NoOutcome, response |-> NoResponse]

\* a GET that answers from an earlier request for the same object instead of
\* fetching
GETStart_Cached(r, path, inHeaders) ==
  /\ reqs[r].pc = "idle"
  /\ IF \E q \in DOMAIN reqs :
          reqs[q].pc = "done" /\ reqs[q].method = "GET" /\ reqs[q].path = path
     THEN LET q == CHOOSE q \in DOMAIN reqs :
                     reqs[q].pc = "done" /\ reqs[q].method = "GET" /\ reqs[q].path = path
          IN  reqs' = [reqs EXCEPT ![r] =
                         [@ EXCEPT !.pc = "done", !.method = "GET", !.path = path,
                                   !.headers = inHeaders,
                                   !.outcome = reqs[q].outcome,
                                   !.response = reqs[q].response]]
     ELSE reqs' = [reqs EXCEPT ![r] =
                     [@ EXCEPT !.pc = "fetching", !.method = "GET", !.path = path,
                               !.headers = inHeaders,
                               !.fetches = Append(@, GETFetch(path, inHeaders))]]
  /\ UNCHANGED <<tileVars, dem, call, readout>>

\* GET up to its `await fetch(...)` (lines 74-90)
GETStart(r, path, inHeaders) ==
  /\ reqs[r].pc = "idle"
  /\ reqs' = [reqs EXCEPT ![r] =
                [@ EXCEPT !.pc = "fetching", !.method = "GET", !.path = path,
                          !.headers = inHeaders,
                          !.fetches = Append(@, GETFetch(path, inHeaders))]]
  /\ UNCHANGED <<tileVars, dem, call, readout>>

\* GET after its fetch settled (lines 90-130)
GETSettle(r, up) ==
  /\ reqs[r].pc = "fetching"
  /\ reqs[r].method = "GET"
  /\ reqs' = [reqs EXCEPT ![r] =
                [@ EXCEPT !.pc = "done", !.outcome = up,
                          !.response = GETResponse(up)]]
  /\ UNCHANGED <<tileVars, dem, call, readout>>

\* HEAD up to its `await fetch(...)` (lines 137-142)
HEADStart(r, path, inHeaders) ==
  /\ reqs[r].pc = "idle"
  /\ reqs' = [reqs EXCEPT ![r] =
                [@ EXCEPT !.pc = "fetching", !.method = "HEAD", !.path = path,
                          !.headers = inHeaders,
                          !.fetches = Append(@, HEADFetch(path, inHeaders))]]
  /\ UNCHANGED <<tileVars, dem, call, readout>>

\* HEAD after its fetch settled (lines 142-165)
HEADSettle(r, up) ==
  /\ reqs[r].pc = "fetching"
  /\ reqs[r].method = "HEAD"
  /\ reqs' = [reqs EXCEPT ![r] =
                [@ EXCEPT !.pc = "done", !.outcome = up,
                          !.response = HEADResponse(up)]]
  /\ UNCHANGED <<tileVars, dem, call, readout>>

\* OPTIONS (lines 168-178): takes no argument and awaits nothing
OPTIONS(r, path, inHeaders) ==
  /\ reqs[r].pc = "idle"
  /\ reqs' = [reqs EXCEPT ![r] =
                [@ EXCEPT !.pc = "done", !.method = "OPTIONS", !.path = path,
                          !.headers = inHeaders,
                          !.response = OPTIONSResponse]]
  /\ UNCHANGED <<tileVars, dem, call, readout>>

-----------------------------------------------------------------------------
(* Inputs of the proxy                                                     *)

TileDir == "Copernicus_DSM_COG_10_N46_00_E010_00_DEM"

Segments == {TileDir, TileDir \o ".tif"}

\* the catch-all route [...path] matches one segment or more
Paths == UNION {[1..n -> Segments] : n \in 1..MaxPathLen}

\* inbound requests: no Range header, an empty one, a byte range
InboundHeaderSets ==
  {NoHeaders, {<<"range", "">>}, {<<"range", "bytes=0-99">>}}

UpstreamStatuses == {200, 204, 206, 403, 404, 500}

ForwardedNames == {"content-type", "content-length", "content-range", "accept-ranges"}

UpstreamValue(name) ==
  CASE name = "content-type" -> "image/tiff"
    [] name = "content-length" -> "100"
    [] name = "content-range" -> "bytes 0-99/1000"
    [] name = "accept-ranges" -> "bytes"

\* S3 response headers: each forwarded header absent, empty or set, and
\* headers the route does not forward
UpstreamHeaderSets ==
  { {<<n, IF f[n] = "empty" THEN "" ELSE UpstreamValue(n)>> :
        n \in {m \in ForwardedNames : f[m] # "absent"}}
    \cup {<<"etag", "\"abc\"">>, <<"x-amz-request-id", "REQ1">>} :
    f \in [ForwardedNames -> {"absent", "empty", "set"}] }

\* the body of an upstream response: none for HEAD and for 204
UpstreamBody(method, status) ==
  IF method = "HEAD" \/ status = 204 THEN NullBody
  ELSE IF status \in {200, 206} THEN StreamBody("cog-bytes")
  ELSE StreamBody("<Error/>")

Outcomes(method, statuses, headerSets) ==
  {Threw} \cup {Resolved(s, h, UpstreamBody(method, s)) : s \in statuses, h \in headerSets}

TileIdle == tileArgLat = 0 /\ tileArgLon = 0 /\ tileResult = ""

\* one request at a time, every input
InitProxy == reqs = [r \in 1..1 |-> IdleRequest] /\ TileIdle /\ DemIdle /\ CallIdle /\ ReadoutIdle

NextProxy ==
  \/ \E r \in DOMAIN reqs, p \in Paths, h \in InboundHeaderSets : GETStart(r, p, h)
  \/ \E r \in DOMAIN reqs, up \in Outcomes("GET", UpstreamStatuses, UpstreamHeaderSets) :
        GETSettle(r, up)
  \/ \E r \in DOMAIN reqs, p \in Paths, h \in InboundHeaderSets : HEADStart(r, p, h)
  \/ \E r \in DOMAIN reqs, up \in Outcomes("HEAD", UpstreamStatuses, UpstreamHeaderSets) :
        HEADSettle(r, up)
  \/ \E r \in DOMAIN reqs, p \in Paths, h \in InboundHeaderSets : OPTIONS(r, p, h)

SpecProxy == InitProxy /\ [][NextProxy]_vars

\* concurrent requests, fewer inputs
ConcPaths == {<<TileDir>>, <<TileDir, TileDir \o ".tif">>}

ConcInboundHeaderSets == {NoHeaders, {<<"range", "bytes=0-99">>}}

ConcStatuses == {200, 404}

ConcUpstreamHeaderSets ==
  { {<<"etag", "\"abc\"">>},
    {<<n, UpstreamValue(n)>> : n \in ForwardedNames} \cup {<<"etag", "\"abc\"">>} }

InitConcurrent ==
  reqs = [r \in 1..MaxRequests |-> IdleRequest] /\ TileIdle /\ DemIdle /\ CallIdle /\ ReadoutIdle

NextConcurrent ==
  \/ \E r \in DOMAIN reqs, p \in ConcPaths, h \in ConcInboundHeaderSets : GETStart(r, p, h)
  \/ \E r \in DOMAIN reqs, up \in Outcomes("GET", ConcStatuses, ConcUpstreamHeaderSets) :
        GETSettle(r, up)
  \/ \E r \in DOMAIN reqs, p \in ConcPaths, h \in ConcInboundHeaderSets : HEADStart(r, p, h)
  \/ \E r \in DOMAIN reqs, up \in Outcomes("HEAD", ConcStatuses, ConcUpstreamHeaderSets) :
        HEADSettle(r, up)
  \/ \E r \in DOMAIN reqs, p \in ConcPaths, h \in ConcInboundHeaderSets : OPTIONS(r, p, h)

SpecConcurrent == InitConcurrent /\ [][NextConcurrent]_vars

-----------------------------------------------------------------------------
(* Properties of the proxy route                                           *)

Done(r) == reqs[r].pc = "done"

IsGET(r) == reqs[r].method = "GET"

IsHEAD(r) == reqs[r].method = "HEAD"

IsOPTIONS(r) == reqs[r].method = "OPTIONS"

\* C1: every GET and HEAD response - relayed success, relayed upstream
\* error, local-failure 500 - carries the four CORS headers.
C1_CorsOnEveryResponse ==
  \A r \in DOMAIN reqs :
    (Done(r) /\ (IsGET(r) \/ IsHEAD(r))) => CorsHeaders \subseteq reqs[r].response.headers

\* C2 as stated: for GET, every upstream status other than 200 and 206 is
\* answered with that status and {"error": "S3 error: <status>"}, and only
\* 200 and 206 are relayed with the upstream status and body.
C2_ErrorUnless200Or206 ==
  \A r \in DOMAIN reqs :
    (Done(r) /\ IsGET(r) /\ ~reqs[r].outcome.threw) =>
      LET up == reqs[r].outcome
          resp == reqs[r].response
      IN  IF up.status \in {200, 206}
          THEN resp.status = up.status /\ resp.body = up.body
          ELSE /\ resp.status = up.status
               /\ resp.body = <<"json", "S3 error: " \o ToString(up.status)>>

\* C2 amended: for GET, every upstream status outside 200..299 is answered
\* with that status and {"error": "S3 error: <status>"}; every upstream
\* status in 200..299 (206 among them) is relayed with the upstream status
\* and body.
C2_ErrorUnless2xx ==
  \A r \in DOMAIN reqs :
    (Done(r) /\ IsGET(r) /\ ~reqs[r].outcome.threw) =>
      LET up == reqs[r].outcome
          resp == reqs[r].response
      IN  IF up.status \in 200..299
          THEN resp.status = up.status /\ resp.body = up.body
          ELSE /\ resp.status = up.status
               /\ resp.body = <<"json", "S3 error: " \o ToString(up.status)>>

\* a GET relayed an upstream 204 as a success
C2_Witness ==
  \E r \in DOMAIN reqs :
    /\ Done(r) /\ IsGET(r)
    /\ reqs[r].outcome.status = 204
    /\ reqs[r].response.status = 204
    /\ reqs[r].response.body = NullBody

\* what GET answers for the upstream status and headers a HEAD request saw
GETFor(up) ==
  IF up.threw THEN GETResponse(up)
  ELSE GETResponse(Resolved(up.status, up.headers, UpstreamBody("GET", up.status)))

\* C3: HEAD returns the status and the response headers GET returns for the
\* same upstream outcome, with an empty body.
C3_HeadMirrorsGet ==
  \A r \in DOMAIN reqs :
    (Done(r) /\ IsHEAD(r)) =>
      /\ reqs[r].response.status = GETFor(reqs[r].outcome).status
      /\ reqs[r].response.headers = GETFor(reqs[r].outcome).headers
      /\ reqs[r].response.body = NullBody

RECURSIVE JoinedUpTo(_, _)
\* the first n segments of path with "/" between them
JoinedUpTo(path, n) ==
  IF n = 1 THEN path[1] ELSE JoinedUpTo(path, n - 1) \o "/" \o path[n]

\* the GET of r made one fetch, to the fixed origin followed by the joined path
ForwardsUrl(r) ==
  /\ Len(reqs[r].fetches) = 1
  /\ reqs[r].fetches[1].method = "GET"
  /\ SubSeq(reqs[r].fetches[1].url, 1, 44) = "https://copernicus-dem-30m.s3.amazonaws.com/"
  /\ reqs[r].fetches[1].url =
       "https://copernicus-dem-30m.s3.amazonaws.com/"
         \o JoinedUpTo(reqs[r].path, Len(reqs[r].path))

\* C4 as stated: the upstream request of GET targets the fixed origin plus
\* the joined path and carries the inbound Range value whenever the inbound
\* request has a Range header, and no Range header otherwise.
C4_ForwardsRangeWhenPresent ==
  \A r \in DOMAIN reqs :
    (IsGET(r) /\ reqs[r].pc # "idle") =>
      /\ ForwardsUrl(r)
      /\ reqs[r].fetches[1].headers =
           {p \in reqs[r].headers : p[1] = "range"}

\* C4 amended: the upstream request of GET targets the fixed origin plus the
\* joined path and carries the inbound Range value whenever the inbound
\* request has a Range header with a non-empty value, and no Range header
\* otherwise.
C4_ForwardsNonEmptyRange ==
  \A r \in DOMAIN reqs :
    (IsGET(r) /\ reqs[r].pc # "idle") =>
      /\ ForwardsUrl(r)
      /\ reqs[r].fetches[1].headers =
           {p \in reqs[r].headers : p[1] = "range" /\ p[2] # ""}

\* a GET for a two-segment path forwarded its byte range
C4_Witness ==
  \E r \in DOMAIN reqs :
    /\ IsGET(r) /\ reqs[r].pc = "fetching"
    /\ Len(reqs[r].path) = 2
    /\ <<"range", "bytes=0-99">> \in reqs[r].headers
    /\ reqs[r].fetches[1].headers = {<<"range", "bytes=0-99">>}

\* C5: when the upstream fetch throws, GET answers 500 with
\* {"error": "Failed to fetch COG file"} and HEAD answers 500 with
\* {"error": "Failed"}; the handler always answers once its fetch settled.
C5_FetchFailureIs500 ==
  \A r \in DOMAIN reqs :
    /\ (Done(r) /\ IsGET(r) /\ reqs[r].outcome.threw) =>
         /\ reqs[r].response.status = 500
         /\ reqs[r].response.body = <<"json", "Failed to fetch COG file">>
    /\ (Done(r) /\ IsHEAD(r) /\ reqs[r].outcome.threw) =>
         /\ reqs[r].response.status = 500
         /\ reqs[r].response.body = <<"json", "Failed">>
    /\ Done(r) => reqs[r].response # NoResponse

\* a GET whose fetch threw has been answered
C5_Witness ==
  \E r \in DOMAIN reqs :
    Done(r) /\ IsGET(r) /\ reqs[r].outcome.threw /\ reqs[r].response.status = 500

\* C6: under any interleaving each GET/HEAD request issues exactly one
\* upstream fetch, for its own path, and its response is a function of its
\* own request and the outcome of its own fetch; a 500 for a failed fetch
\* goes only to the request whose fetch failed.
C6_Stateless ==
  \A r \in DOMAIN reqs :
    /\ (reqs[r].pc # "idle" /\ (IsGET(r) \/ IsHEAD(r))) =>
         /\ Len(reqs[r].fetches) = 1
         /\ reqs[r].fetches[1].url = S3Url(reqs[r].path)
    /\ (Done(r) /\ IsGET(r)) => reqs[r].response = GETResponse(reqs[r].outcome)
    /\ (Done(r) /\ IsHEAD(r)) => reqs[r].response = HEADResponse(reqs[r].outcome)
    /\ (Done(r) /\ reqs[r].response.body \in
           {<<"json", "Failed to fetch COG file">>, <<"json", "Failed">>}) =>
         reqs[r].outcome.threw
    /\ \A q \in DOMAIN reqs :
         (Done(r) /\ Done(q) /\ reqs[r].method = reqs[q].method
            /\ reqs[r].path = reqs[q].path /\ reqs[r].headers = reqs[q].headers
            /\ reqs[r].outcome = reqs[q].outcome) =>
           reqs[r].response = reqs[q].response

\* two GETs for the same object ran together: one fetch threw, the other
\* was relayed
C6_Witness ==
  \E r, q \in DOMAIN reqs :
    /\ r # q /\ Done(r) /\ Done(q) /\ IsGET(r) /\ IsGET(q)
    /\ reqs[r].path = reqs[q].path
    /\ reqs[r].outcome.threw /\ reqs[r].response.status = 500
    /\ reqs[q].outcome.status = 200 /\ reqs[q].response.status = 200

ForwardedOrCors ==
  {"content-type", "content-length", "content-range", "accept-ranges",
   "access-control-allow-origin", "access-control-allow-methods",
   "access-control-allow-headers", "access-control-expose-headers"}

RelayedGET(r) ==
  /\ Done(r) /\ IsGET(r) /\ ~reqs[r].outcome.threw
  /\ reqs[r].response.body[1] # "json"

\* C7 as stated: a successful GET response carries each of Content-Type,
\* Content-Length, Content-Range, Accept-Ranges exactly when the upstream
\* response has that header, with the upstream value, and no header besides
\* these four and the CORS headers.
C7_ForwardsWhenPresent ==
  \A r \in DOMAIN reqs :
    RelayedGET(r) =>
      /\ \A n \in {"content-type", "content-length", "content-range", "accept-ranges"} :
           HeadersGet(reqs[r].response.headers, n) = HeadersGet(reqs[r].outcome.headers, n)
      /\ HeaderNames(reqs[r].response.headers) \subseteq ForwardedOrCors

\* C7 amended: a successful GET response carries each of Content-Type,
\* Content-Length, Content-Range, Accept-Ranges exactly when the upstream
\* response has that header with a non-empty value, with the upstream value,
\* and no header besides these four and the CORS headers.
C7_ForwardsWhenNonEmpty ==
  \A r \in DOMAIN reqs :
    RelayedGET(r) =>
      /\ \A n \in {"content-type", "content-length", "content-range", "accept-ranges"} :
           HeadersGet(reqs[r].response.headers, n) =
             (IF HeadersGet(reqs[r].outcome.headers, n) = <<"">>
              THEN <<>> ELSE HeadersGet(reqs[r].outcome.headers, n))
      /\ HeaderNames(reqs[r].response.headers) \subseteq ForwardedOrCors

\* a 206 with Content-Range but without Content-Type was relayed so
C7_Witness ==
  \E r \in DOMAIN reqs :
    /\ RelayedGET(r)
    /\ reqs[r].outcome.status = 206
    /\ HeadersGet(reqs[r].outcome.headers, "content-type") = <<>>
    /\ HeadersGet(reqs[r].outcome.headers, "etag") # <<>>
    /\ HeadersGet(reqs[r].response.headers, "content-type") = <<>>
    /\ HeadersGet(reqs[r].response.headers, "content-range") = <<"bytes 0-99/1000">>

\* C8: OPTIONS answers 204 with an empty body and exactly the four CORS
\* headers, makes no upstream fetch, whatever the request.
C8_OptionsPreflight ==
  \A r \in DOMAIN reqs :
    (reqs[r].pc # "idle" /\ IsOPTIONS(r)) =>
      /\ Done(r)
      /\ reqs[r].response.status = 204
      /\ reqs[r].response.body = NullBody
      /\ reqs[r].response.headers = CorsHeaders
      /\ reqs[r].fetches = <<>>

\* an OPTIONS request that carried a Range header has been answered
C8_Witness ==
  \E r \in DOMAIN reqs :
    /\ Done(r) /\ IsOPTIONS(r)
    /\ <<"range", "bytes=0-99">> \in reqs[r].headers
    /\ reqs[r].response.status = 204

-----------------------------------------------------------------------------
(* Tile-name deriver, src/unnamed/part_000:21-39                           *)
(* Numbers count tenths: 512 is 51.2, -123 is -12.3.                       *)

\* Math.trunc in place of Math.floor: rounds toward zero
MathFloor_Trunc(x) == IF x >= 0 THEN (x \div 10) * 10 ELSE -(((-x) \div 10) * 10)

\* Math.floor: the largest whole number not above x
MathFloor(x) == (x \div 10) * 10

MathAbs(x) == IF x < 0 THEN -x ELSE x

Digit(d) == <<"0", "1", "2", "3", "4", "5", "6", "7", "8", "9">>[d + 1]

RECURSIVE NatToString(_)
\* the decimal digits of a natural number
NatToString(n) ==
  IF n < 10 THEN Digit(n) ELSE NatToString(n \div 10) \o Digit(n % 10)

\* Number.prototype.toString of a number of tenths
NumberToString(x) ==
  (IF x < 0 THEN "-" ELSE "")
    \o NatToString(MathAbs(x) \div 10)
    \o (IF MathAbs(x) % 10 = 0 THEN "" ELSE "." \o Digit(MathAbs(x) % 10))

\* a padStart that pads nothing
PadStart_None(str, targetLength, fill) == str

RECURSIVE PadStart(_, _, _)
\* String.prototype.padStart with a one-character fill string
PadStart(str, targetLength, fill) ==
  IF Len(str) >= targetLength THEN str
  ELSE PadStart(fill \o str, targetLength, fill)

getCopernicusTileUrl(lat, lon) ==
  LET tileLat == MathFloor(lat)
      tileLon == MathFloor(lon)
      latPrefix == IF tileLat >= 0 THEN "N" ELSE "S"
      lonPrefix == IF tileLon >= 0 THEN "E" ELSE "W"
      latStr == PadStart(NumberToString(MathAbs(tileLat)), 2, "0")
      lonStr == PadStart(NumberToString(MathAbs(tileLon)), 3, "0")
      tileName == "Copernicus_DSM_COG_10_" \o latPrefix \o latStr \o "_00_"
                    \o lonPrefix \o lonStr \o "_00_DEM"
  IN  "https://copernicus-dem-30m.s3.amazonaws.com/" \o tileName \o "/"
        \o tileName \o ".tif"

\* a call getCopernicusTileUrl(tileArgLat, tileArgLon) returns
GetTileUrl ==
  /\ tileResult = ""
  /\ tileResult' = getCopernicusTileUrl(tileArgLat, tileArgLon)
  /\ UNCHANGED <<reqs, tileArgLat, tileArgLon, dem, call, readout>>

(* Inputs: every tenth of a degree of latitude against a few longitudes,   *)
(* and every whole degree of longitude (with fractions) against a few      *)
(* latitudes, both beyond the widths the padding is made for.              *)

LatAll == {d * 10 + f : d \in (-MaxLatDeg)..MaxLatDeg, f \in 0..9}

LonFew == {-123, 79, 0, -1, -5, 9999, -10000, 10000}

LonFractions == {0, 3, 9}

LonAll == {d * 10 + f : d \in (-MaxLonDeg)..MaxLonDeg, f \in LonFractions}

LatFew == {512, -50, 0, -1, -5, 999, -1000, 1000}

TileInputs == (LatAll \X LonFew) \cup (LatFew \X LonAll)

InitTile ==
  /\ reqs = <<>>
  /\ \E in \in TileInputs : tileArgLat = in[1] /\ tileArgLon = in[2]
  /\ tileResult = ""
  /\ DemIdle
  /\ CallIdle /\ ReadoutIdle

NextTile == GetTileUrl

SpecTile == InitTile /\ [][NextTile]_vars

-----------------------------------------------------------------------------
(* Properties of the tile-name deriver                                     *)

\* the floor of a number of tenths, by its remainder
FlooredTenths(x) == x - (x % 10)

\* C9: getCopernicusTileUrl(lat, lon) equals
\* getCopernicusTileUrl(floor(lat), floor(lon)) for integer and non-integer
\* inputs, negative ones included.
C9_InvariantUnderFlooring ==
  tileResult # "" =>
    tileResult = getCopernicusTileUrl(FlooredTenths(tileArgLat), FlooredTenths(tileArgLon))

\* (-5.0, -12.3) was mapped to the tile of (-5, -13): S05/W013
C9_Witness ==
  /\ tileArgLat = -50 /\ tileArgLon = -123
  /\ FlooredTenths(tileArgLon) = -130
  /\ tileResult = "https://copernicus-dem-30m.s3.amazonaws.com/Copernicus_DSM_COG_10_S05_00_W013_00_DEM/Copernicus_DSM_COG_10_S05_00_W013_00_DEM.tif"

TwoDigits(n) == Digit(n \div 10) \o Digit(n % 10)

ThreeDigits(n) == Digit(n \div 100) \o Digit((n \div 10) % 10) \o Digit(n % 10)

\* whole degrees of the floored coordinate
FlooredDeg(x) == FlooredTenths(x) \div 10

ExpectedTileName(lat, lon) ==
  "Copernicus_DSM_COG_10_"
    \o (IF FlooredDeg(lat) >= 0 THEN "N" ELSE "S") \o TwoDigits(MathAbs(FlooredDeg(lat)))
    \o "_00_"
    \o (IF FlooredDeg(lon) >= 0 THEN "E" ELSE "W") \o ThreeDigits(MathAbs(FlooredDeg(lon)))
    \o "_00_DEM"

\* C10: for |floor(lat)| < 100 and |floor(lon)| < 1000 the result is
\* https://copernicus-dem-30m.s3.amazonaws.com/<name>/<name>.tif with <name>
\* Copernicus_DSM_COG_10_{N|S}{2 digits}_00_{E|W}{3 digits}_00_DEM, N/E for a
\* floored coordinate >= 0 and S/W otherwise, the digits the zero-padded
\* absolute value of the floored coordinate.
C10_TileUrlFormat ==
  (/\ tileResult # ""
   /\ MathAbs(FlooredDeg(tileArgLat)) < 100
   /\ MathAbs(FlooredDeg(tileArgLon)) < 1000) =>
    tileResult = "https://copernicus-dem-30m.s3.amazonaws.com/"
                   \o ExpectedTileName(tileArgLat, tileArgLon) \o "/"
                   \o ExpectedTileName(tileArgLat, tileArgLon) \o ".tif"

\* (51.2, 7.9) gave N51/E007
C10_Witness ==
  /\ tileArgLat = 512 /\ tileArgLon = 79
  /\ tileResult = "https://copernicus-dem-30m.s3.amazonaws.com/Copernicus_DSM_COG_10_N51_00_E007_00_DEM/Copernicus_DSM_COG_10_N51_00_E007_00_DEM.tif"

-----------------------------------------------------------------------------
(* The map view component DemMap (src/app/page.tsx:197-852)                *)
(*                                                                         *)
(* dem is the component: its refs (mapRef, updateTimeout), its state       *)
(* (showCliffs, isCalculating), the map engine instances it has built, the *)
(* 'cog' protocol registration and the timers of the event loop.  A        *)
(* handler is a function from component to component; an action applies    *)
(* one handler, with every effect the React commit that follows re-runs.   *)

\* at most this many map engine instances are built (initialLocation changes)
MaxInstances == 2

\* at most this many timers and once('idle') listeners are pending together
MaxTimers == 2

SLOPE_ZOOM_THRESHOLD == 10

InitialZoom == 6

HillshadeLayers == {"cliff-hillshade", "cliff-hillshade-2"}

SlopeLayers == {"slope-fill", "slope-outline"}

TerrainLayers == HillshadeLayers \cup SlopeLayers

\* new maplibregl.Map({... zoom: 6 ...}): nothing loaded, no listener yet
NewMapInstance ==
  [live |-> TRUE, loadFired |-> FALSE, layers |-> {}, vis |-> {},
   data |-> "none", zoom |-> InitialZoom, settled |-> TRUE, idleOnce |-> <<>>]

\* map.remove(): the engine instance is gone, nothing of it can be observed
RemovedMapInstance ==
  [live |-> FALSE, loadFired |-> FALSE, layers |-> {}, vis |-> {},
   data |-> "none", zoom |-> InitialZoom, settled |-> TRUE, idleOnce |-> <<>>]

\* timers and once('idle') listeners that are pending
Pending(d) ==
  LET RECURSIVE Listeners(_)
      Listeners(k) ==
        IF k = 0 THEN 0 ELSE Len(d.insts[k].idleOnce) + Listeners(k - 1)
  IN Cardinality(d.timers) + Listeners(Len(d.insts))

\* the id setTimeout returns is fresh: no pending timer has it and
\* updateTimeout does not hold it
FreshTimerId(d) ==
  CHOOSE n \in 1..(Cardinality(d.timers) + 2) :
    /\ n # d.updateTimeout
    /\ \A t \in d.timers : t.id # n
    /\ \A m \in 1..(n - 1) : m = d.updateTimeout \/ \E t \in d.timers : t.id = m

\* setTimeout(...); inst is the map the callback closes over (0: none),
\* sc the showCliffs its updateSlopeVisualization closes over
SetTimeout(d, kind, sc, inst) ==
  [d EXCEPT !.timers = @ \cup {[id |-> FreshTimerId(d), kind |-> kind,
                                sc |-> sc, inst |-> inst,
                                seenEvent |-> FALSE]}]

\* clearTimeout(id): a timer that already ran is not there any more
ClearTimeout(d, id) ==
  [d EXCEPT !.timers = {t \in @ : t.id # id}]

\* updateLayerVisibility(mapInstance, zoom) of the render whose showCliffs is sc
updateLayerVisibility(d, i, zoom, sc) ==
  IF ~sc THEN d
  ELSE
    LET useSlope == zoom >= SLOPE_ZOOM_THRESHOLD
        has      == d.insts[i].layers
        guarded  == (has \cap HillshadeLayers)
                      \cup (IF "slope-fill" \in has THEN SlopeLayers ELSE {})
        shown    == IF useSlope THEN guarded \cap SlopeLayers
                                ELSE guarded \cap HillshadeLayers
    IN [d EXCEPT !.insts[i].vis = (@ \ guarded) \cup shown]

\* updateSlopeVisualization() of the render whose showCliffs is sc
updateSlopeVisualization(d, sc) ==
  IF d.mapRef = 0 \/ ~sc THEN d
  ELSE
    LET i    == d.mapRef
        zoom == d.insts[i].zoom
        d1   == updateLayerVisibility(d, i, zoom, sc)
    IN IF zoom < SLOPE_ZOOM_THRESHOLD
       THEN IF d1.insts[i].data # "none"
            THEN [d1 EXCEPT !.insts[i].data = "empty"]
            ELSE d1
       ELSE
         LET d2 == [d1 EXCEPT !.isCalculating = TRUE]
             d3 == IF d2.updateTimeout # 0
                   THEN ClearTimeout(d2, d2.updateTimeout)
                   ELSE d2
         IN [SetTimeout(d3, "debounce", sc, i)
               EXCEPT !.updateTimeout = FreshTimerId(d3)]

\* the protocol effect and its cleanup
ProtocolEffect(d) ==
  [d EXCEPT !.protocol = TRUE, !.protocolAdds = @ + 1]

ProtocolCleanup(d) ==
  [d EXCEPT !.protocol = FALSE, !.protocolRemoves = @ + 1]

\* the map-init effect; ok is whether the Map constructor returned
MapInitEffect(d, ok) ==
  IF d.mapRef # 0 THEN d
  ELSE IF ok
       THEN [d EXCEPT !.insts = Append(@, NewMapInstance),
                      !.mapRef = Len(d.insts) + 1,
                      !.mapCleanup = TRUE]
       ELSE [d EXCEPT !.mapCleanup = TRUE]

\* the cleanup the map-init effect returned
MapInitCleanup_KeepsInstance(d) ==
  IF d.mapCleanup /\ d.mapRef # 0
  THEN [d EXCEPT !.mapRef = 0, !.mapCleanup = FALSE]
  ELSE [d EXCEPT !.mapCleanup = FALSE]

MapInitCleanup(d) ==
  IF d.mapCleanup /\ d.mapRef # 0
  THEN [d EXCEPT !.insts[d.mapRef] = RemovedMapInstance,
                 !.mapRef = 0, !.mapCleanup = FALSE]
  ELSE [d EXCEPT !.mapCleanup = FALSE]

\* the slope-update effect of the render whose showCliffs is sc; loaded is
\* the answer of mapInstance.loaded()
SlopeEffect(d, sc, loaded) ==
  IF d.mapRef = 0 THEN d
  ELSE
    LET d1 == [d EXCEPT !.handlerInst = d.mapRef]
    IN IF loaded
       THEN SetTimeout(d1, "initial", sc, 0)
       ELSE [d1 EXCEPT !.insts[d.mapRef].idleOnce = Append(@, sc)]

\* the cleanup the slope-update effect returned
SlopeCleanup(d) ==
  [d EXCEPT !.handlerInst = 0]

\* what mapInstance.loaded() can answer
LoadedAnswers(d) ==
  IF d.mapRef # 0 /\ d.insts[d.mapRef].loadFired THEN BOOLEAN ELSE {FALSE}

-----------------------------------------------------------------------------
(* Actions of the map view component                                       *)

OnlyDem == UNCHANGED <<reqs, tileVars, call, readout>>

\* first render: the three effects run in the order they are declared
Mount(ok) ==
  /\ dem.phase = "unmounted"
  /\ LET d0 == [dem EXCEPT !.phase = "mounted"]
         d1 == ProtocolEffect(d0)
         d2 == MapInitEffect(d1, ok)
     IN \E loaded \in LoadedAnswers(d2) :
          dem' = SlopeEffect(d2, d2.showCliffs, loaded)
  /\ OnlyDem

\* the initialLocation prop changes: only the map-init effect depends on it
ChangeInitialLocation(ok) ==
  /\ dem.phase = "mounted"
  /\ Len(dem.insts) < MaxInstances
  /\ dem' = MapInitEffect(MapInitCleanup(dem), ok)
  /\ OnlyDem

\* the component is unmounted: every effect's cleanup runs
Unmount ==
  /\ dem.phase = "mounted"
  /\ dem' = SlopeCleanup(MapInitCleanup(ProtocolCleanup(
               [dem EXCEPT !.phase = "gone"])))
  /\ OnlyDem

\* the map's 'load' event; ok is whether the terrain sources and layers
\* were added without a throw
Load(i, ok) ==
  /\ dem.insts[i].live
  /\ ~dem.insts[i].loadFired
  /\ dem' = IF ok
            THEN [dem EXCEPT !.insts[i].loadFired = TRUE,
                             !.insts[i].layers = TerrainLayers,
                             !.insts[i].vis = TerrainLayers,
                             !.insts[i].data = "empty"]
            ELSE [dem EXCEPT !.insts[i].loadFired = TRUE]
  /\ OnlyDem

\* the map's 'idle' event runs every once('idle') listener
Idle(i) ==
  /\ dem.insts[i].live
  /\ dem.insts[i].loadFired
  /\ dem.insts[i].idleOnce # <<>>
  /\ LET RECURSIVE Run(_, _)
         Run(d, k) ==
           IF k > Len(dem.insts[i].idleOnce) THEN d
           ELSE Run(SetTimeout(d, "initial", dem.insts[i].idleOnce[k], 0),
                    k + 1)
     IN dem' = Run([dem EXCEPT !.insts[i].idleOnce = <<>>], 1)
  /\ OnlyDem

\* the user pans or zooms: the view moves, no 'moveend'/'zoomend' yet
Gesture(i, z) ==
  /\ dem.insts[i].live
  /\ dem' = [dem EXCEPT !.insts[i].zoom = z, !.insts[i].settled = FALSE]
  /\ OnlyDem

\* 'moveend' / 'zoomend': handleUpdate runs if it is registered on the map
ViewportEnd(i) ==
  /\ dem.insts[i].live
  /\ ~dem.insts[i].settled
  /\ Pending(dem) < MaxTimers
  /\ LET d1 == [dem EXCEPT !.insts[i].settled = TRUE]
         d2 == [d1 EXCEPT !.timers =
                  {IF t.kind = "debounce" THEN [t EXCEPT !.seenEvent = TRUE]
                                          ELSE t : t \in @}]
     IN dem' = IF dem.handlerInst = i
               THEN updateSlopeVisualization(d2, d2.showCliffs)
               ELSE d1
  /\ OnlyDem

\* a timer of the slope-update effect runs updateSlopeVisualization
InitialTimerFire(t) ==
  /\ t \in dem.timers
  /\ t.kind = "initial"
  /\ dem' = updateSlopeVisualization([dem EXCEPT !.timers = @ \ {t}], t.sc)
  /\ OnlyDem

\* the debounced recomputation runs; threw is whether its try block threw
DebounceFire_NoFinally(t, threw) ==
  /\ t \in dem.timers
  /\ t.kind = "debounce"
  /\ LET d1 == [dem EXCEPT !.timers = @ \ {t}]
         d2 == IF ~threw /\ d1.insts[t.inst].live
                         /\ d1.insts[t.inst].data # "none"
               THEN [d1 EXCEPT !.insts[t.inst].data = "features"]
               ELSE d1
     IN dem' = IF threw THEN d2 ELSE [d2 EXCEPT !.isCalculating = FALSE]
  /\ OnlyDem

DebounceFire(t, threw) ==
  /\ t \in dem.timers
  /\ t.kind = "debounce"
  /\ LET d1 == [dem EXCEPT !.timers = @ \ {t}]
         d2 == IF ~threw /\ d1.insts[t.inst].live
                         /\ d1.insts[t.inst].data # "none"
               THEN [d1 EXCEPT !.insts[t.inst].data = "features"]
               ELSE d1
     IN dem' = [d2 EXCEPT !.isCalculating = FALSE]
  /\ OnlyDem

\* the highlight checkbox changes, then the slope-update effect re-runs
ToggleShowCliffs(loaded) ==
  /\ dem.phase = "mounted"
  /\ Pending(dem) < MaxTimers
  /\ loaded \in LoadedAnswers(dem)
  /\ LET checked == ~dem.showCliffs
         i  == dem.mapRef
         d1 == [dem EXCEPT !.showCliffs = checked]
         d2 == IF i = 0 THEN d1
               ELSE IF checked
                 THEN updateSlopeVisualization(
                        [d1 EXCEPT !.insts[i].vis =
                           d1.insts[i].layers \cap
                             (IF d1.insts[i].zoom >= SLOPE_ZOOM_THRESHOLD
                              THEN SlopeLayers ELSE HillshadeLayers)],
                        dem.showCliffs)
                 ELSE [d1 EXCEPT !.insts[i].vis = {}]
     IN dem' = SlopeEffect(SlopeCleanup(d2), checked, loaded)
  /\ OnlyDem

\* the threshold slider changes, then the slope-update effect re-runs
SliderChange(loaded) ==
  /\ dem.phase = "mounted"
  /\ Pending(dem) < MaxTimers
  /\ loaded \in LoadedAnswers(dem)
  /\ dem' = SlopeEffect(SlopeCleanup(dem), dem.showCliffs, loaded)
  /\ OnlyDem

\* the threshold slider is released
SliderRelease ==
  /\ dem.phase = "mounted"
  /\ Pending(dem) < MaxTimers
  /\ dem' = updateSlopeVisualization(dem, dem.showCliffs)
  /\ OnlyDem

Zooms == {InitialZoom, SLOPE_ZOOM_THRESHOLD, 14}

InitMap ==
  /\ reqs = <<>>
  /\ TileIdle
  /\ DemIdle
  /\ CallIdle /\ ReadoutIdle

NextMap ==
  \/ \E ok \in BOOLEAN : Mount(ok)
  \/ \E ok \in BOOLEAN : ChangeInitialLocation(ok)
  \/ Unmount
  \/ \E i \in DOMAIN dem.insts, ok \in BOOLEAN : Load(i, ok)
  \/ \E i \in DOMAIN dem.insts : Idle(i)
  \/ \E i \in DOMAIN dem.insts, z \in Zooms : Gesture(i, z)
  \/ \E i \in DOMAIN dem.insts : ViewportEnd(i)
  \/ \E t \in dem.timers : InitialTimerFire(t)
  \/ \E t \in dem.timers, threw \in BOOLEAN : DebounceFire(t, threw)
  \/ \E loaded \in BOOLEAN : ToggleShowCliffs(loaded)
  \/ \E loaded \in BOOLEAN : SliderChange(loaded)
  \/ SliderRelease

SpecMap == InitMap /\ [][NextMap]_vars

\* a timer that is due fires: the event loop runs the pending recomputation
SpecMapLive ==
  /\ InitMap
  /\ [][NextMap]_vars
  /\ WF_vars(\E t \in dem.timers, threw \in BOOLEAN : DebounceFire(t, threw))

-----------------------------------------------------------------------------
(* Claims about the map view component                                     *)

DebouncePending == {t \in dem.timers : t.kind = "debounce"}

\* C11: a viewport-change event (moveend or zoomend) that arrives while a
\* slope recomputation is pending cancels it before anything new is
\* scheduled: at most one recomputation is pending, and no pending
\* recomputation has seen a viewport-change event since it was scheduled.
C11_EventCancelsPending ==
  /\ Cardinality(DebouncePending) <= 1
  /\ \A t \in DebouncePending : ~t.seenEvent

\* C12: with highlighting enabled, once the terrain layers are added and the
\* view is at rest, the cliff hillshade layers are visible exactly when
\* zoom < 10 and the slope layers exactly when zoom >= 10.
C12_StrategiesByZoom ==
  \A i \in DOMAIN dem.insts :
    (/\ dem.insts[i].live
     /\ dem.insts[i].layers = TerrainLayers
     /\ dem.insts[i].settled
     /\ dem.showCliffs)
    => dem.insts[i].vis = IF dem.insts[i].zoom >= 10 THEN SlopeLayers
                                                     ELSE HillshadeLayers

\* C13: at most one map engine instance is live, the handle holds exactly
\* the live instance (none after a failed construction, none once
\* unmounted), and the 'cog' protocol is registered exactly while the
\* component is mounted, one deregistration for each registration.
C13_OneLiveInstance ==
  /\ Cardinality({i \in DOMAIN dem.insts : dem.insts[i].live}) <= 1
  /\ \A i \in DOMAIN dem.insts : dem.insts[i].live <=> dem.mapRef = i
  /\ dem.mapRef # 0 => dem.mapRef \in DOMAIN dem.insts
  /\ dem.phase # "mounted" => dem.mapRef = 0
  /\ dem.protocol <=> dem.phase = "mounted"
  /\ dem.protocolAdds - dem.protocolRemoves
       = IF dem.phase = "mounted" THEN 1 ELSE 0

C13_Witness ==
  /\ dem.phase = "gone"
  /\ Len(dem.insts) = 2
  /\ \A i \in DOMAIN dem.insts : ~dem.insts[i].live
  /\ dem.protocolAdds = 1
  /\ dem.protocolRemoves = 1

-----------------------------------------------------------------------------
(* The slope utilities (src/lib/cliff-detector.ts)                         *)
(*                                                                         *)
(* call is one call of a utility: the function, its arguments and what it  *)
(* returned.  Numbers that the code computes with Math.sqrt and Math.atan  *)
(* are carried exactly:                                                    *)
(*  - a distance is [sgn, sq], the sign and the square of its value, so    *)
(*    that Math.sqrt(distRight^2 + distUp^2) is the radicand itself;       *)
(*  - an angle in degrees is [sgn, n2, d2], standing for                   *)
(*    atan(sgn * sqrt(n2 / d2)) * 180 / PI: d2 = 0 with n2 > 0 is          *)
(*    atan(+-Infinity) = +-90, n2 = 0 with d2 > 0 is 0, and 0 / 0 is NaN.  *)

Sgn(x) == IF x > 0 THEN 1 ELSE IF x < 0 THEN -1 ELSE 0

\* a number used as a distance
Distance(d) == [sgn |-> Sgn(d), sq |-> d * d]

\* Math.sqrt of a non-negative integer
MathSqrt_NoRoot(x) == [sgn |-> Sgn(x), sq |-> x * 2]

MathSqrt(x) == [sgn |-> Sgn(x), sq |-> x]

\* Math.atan(h / d) * (180 / Math.PI); JavaScript's h / 0 is +-Infinity
\* for h # 0 and NaN for h = 0
AtanDegrees(h, distance) ==
  [sgn |-> IF distance.sq = 0 THEN Sgn(h) ELSE Sgn(h) * distance.sgn,
   n2  |-> h * h,
   d2  |-> distance.sq]

\* the number 0 as an angle
ZeroDegrees == [sgn |-> 0, n2 |-> 0, d2 |-> 1]

\* a = 0 degrees, a = 90 degrees, a = -90 degrees
IsDegrees0(a) == a.n2 = 0 /\ a.d2 # 0

IsDegrees90(a) == a.n2 # 0 /\ a.d2 = 0 /\ a.sgn = 1

IsDegreesMinus90(a) == a.n2 # 0 /\ a.d2 = 0 /\ a.sgn = -1

\* a < b for angles that are finite tangents (d2 > 0)
AngleLess(a, b) ==
  IF a.sgn # b.sgn THEN a.sgn < b.sgn
  ELSE IF a.sgn = 1 THEN a.n2 * b.d2 < b.n2 * a.d2
  ELSE IF a.sgn = -1 THEN a.n2 * b.d2 > b.n2 * a.d2
  ELSE FALSE

\* calculateSlopeAngle of cliff-detector (lines 17-19)
calculateSlopeAngle_cliffDetector(heightDiff, horizontalDist) ==
  AtanDegrees(heightDiff, horizontalDist)

\* calculateSlopeAngle of slope-utils (lines 172-175)
calculateSlopeAngle_NoGuard(elevDiff, distance) ==
  AtanDegrees(MathAbs(elevDiff), distance)

calculateSlopeAngle(elevDiff, distance) ==
  IF distance.sq = 0 THEN ZeroDegrees
  ELSE AtanDegrees(MathAbs(elevDiff), distance)

OnlyCall == UNCHANGED <<reqs, tileVars, dem, readout>>

\* height differences and distances the two functions are called with
MaxDiff == 2

Diffs == (0 - MaxDiff)..MaxDiff

CalculateSlopeAngle_cliffDetector ==
  /\ call = NoCall
  /\ \E h \in Diffs, d \in Diffs :
       call' = [fn |-> "calculateSlopeAngle_cliffDetector",
                heightDiff |-> h, horizontalDist |-> d,
                result |-> calculateSlopeAngle_cliffDetector(h, Distance(d))]
  /\ OnlyCall

CalculateSlopeAngle ==
  /\ call = NoCall
  /\ \E h \in Diffs, d \in Diffs :
       call' = [fn |-> "calculateSlopeAngle",
                elevDiff |-> h, distance |-> d,
                result |-> calculateSlopeAngle(h, Distance(d))]
  /\ OnlyCall

-----------------------------------------------------------------------------
(* sampleElevationGrid (src/lib/cliff-detector.ts:202-238)                 *)
(*                                                                         *)
(* An elevation is <<>> for null and <<e>> for the number e.  A coordinate *)
(* west + i * ((east - west) / gridSize) is carried as its numerator over  *)
(* gridSize.  The map answers its k-th elevation query with null or with   *)
(* the elevation k, so that no two queries have the same answer.           *)

\* largest gridSize sampled
MaxGridSize == 3

Null == <<>>

\* map.queryTerrainElevation(...), asked for the k-th time
queryTerrainElevation(map, k) ==
  IF map.nullEvery > 0 /\ k % map.nullEvery = 0 THEN Null ELSE <<k>>

\* the loops of sampleElevationGrid, each running over 0 .. steps - 1
SampleLoops(map, bounds, gridSize, steps) ==
  LET lngs == [i \in 1..steps |->
                 bounds.west * gridSize + (i - 1) * (bounds.east - bounds.west)]
      lats == [j \in 1..steps |->
                 bounds.south * gridSize
                   + (j - 1) * (bounds.north - bounds.south)]
      \* the queries are made row by row: query (j, i) is number
      \* (j - 1) * steps + i
      elevations == [j \in 1..steps |->
                       [i \in 1..steps |->
                          queryTerrainElevation(map, (j - 1) * steps + i)]]
      queries == [k \in 1..(steps * steps) |->
                    <<lngs[((k - 1) % steps) + 1],
                      lats[((k - 1) \div steps) + 1]>>]
  IN [elevations |-> elevations, lngs |-> lngs, lats |-> lats,
      queries |-> queries]

sampleElevationGrid_Exclusive(map, bounds, gridSize) ==
  SampleLoops(map, bounds, gridSize, gridSize)

sampleElevationGrid(map, bounds, gridSize) ==
  SampleLoops(map, bounds, gridSize, gridSize + 1)

Maps == [nullEvery : 0..3]

BoundsSet == [west : {-1, 0}, east : {0, 2}, south : {0, 1}, north : {1, 3}]

SampleElevationGrid ==
  /\ call = NoCall
  /\ \E map \in Maps, bounds \in BoundsSet, gridSize \in 1..MaxGridSize :
       call' = [fn |-> "sampleElevationGrid",
                map |-> map, bounds |-> bounds, gridSize |-> gridSize,
                result |-> sampleElevationGrid(map, bounds, gridSize)]
  /\ OnlyCall

-----------------------------------------------------------------------------
(* calculateSlopeGrid (src/lib/cliff-detector.ts:244-293)                  *)
(*                                                                         *)
(* haversineDistance is a transcendental function of its arguments: the    *)
(* distances it returns for the edges of the grid are inputs of the call,  *)
(* hav.right between a sample and its right neighbour and hav.up between   *)
(* a sample and the one above it.                                          *)

\* at most this many samples in an elevation matrix
MaxSamples == 6

\* Math.max(...slopes) of a non-empty list
MathMax_Last(slopes) ==
  slopes[Len(slopes)]

MathMax(slopes) ==
  LET RECURSIVE Best(_, _)
      Best(k, m) ==
        IF k > Len(slopes) THEN m
        ELSE Best(k + 1, IF AngleLess(m, slopes[k]) THEN slopes[k] ELSE m)
  IN Best(2, slopes[1])

\* the body of the two loops for the sample (j, i), both counted from 1:
\* the cells it pushes; skipIsolated is whether a sample without a usable
\* neighbour is skipped
SlopeCellAt(elevations, lngs, lats, hav, j, i, skipIsolated) ==
  LET elev      == elevations[j][i]
      elevRight == elevations[j][i + 1]
      elevUp    == elevations[j + 1][i]
      elevDiag  == elevations[j + 1][i + 1]
      distRight == Distance(hav.right)
      distUp    == Distance(hav.up)
      distDiag  == MathSqrt(distRight.sq + distUp.sq)
      slopes ==
        (IF elevRight # Null
         THEN <<calculateSlopeAngle(elevRight[1] - elev[1], distRight)>>
         ELSE <<>>)
        \o (IF elevUp # Null
            THEN <<calculateSlopeAngle(elevUp[1] - elev[1], distUp)>>
            ELSE <<>>)
        \o (IF elevDiag # Null
            THEN <<calculateSlopeAngle(elevDiag[1] - elev[1], distDiag)>>
            ELSE <<>>)
      maxSlope == IF Len(slopes) > 0 THEN MathMax(slopes) ELSE ZeroDegrees
  IN IF elev = Null \/ (skipIsolated /\ Len(slopes) = 0) THEN <<>>
     ELSE <<[lng |-> (lngs[i] + lngs[i + 1]) \div 2,
             lat |-> (lats[j] + lats[j + 1]) \div 2,
             slope |-> maxSlope,
             elevation |-> elev[1]]>>

SlopeLoops_SkipsLastColumn(elevations, lngs, lats, hav, skipIsolated) ==
  LET rows == Len(elevations)
      cols == IF rows = 0 THEN 0 ELSE Len(elevations[1])
      RECURSIVE From(_, _)
      From(j, i) ==
        IF j >= rows THEN <<>>
        ELSE IF i >= cols - 1 THEN From(j + 1, 1)
        ELSE SlopeCellAt(elevations, lngs, lats, hav, j, i, skipIsolated)
               \o From(j, i + 1)
  IN From(1, 1)

\* the two loops, j outside and i inside
SlopeLoops(elevations, lngs, lats, hav, skipIsolated) ==
  LET rows == Len(elevations)
      cols == IF rows = 0 THEN 0 ELSE Len(elevations[1])
      RECURSIVE From(_, _)
      From(j, i) ==
        IF j >= rows THEN <<>>
        ELSE IF i >= cols THEN From(j + 1, 1)
        ELSE SlopeCellAt(elevations, lngs, lats, hav, j, i, skipIsolated)
               \o From(j, i + 1)
  IN From(1, 1)

calculateSlopeGrid_SkipsIsolated(elevations, lngs, lats, hav) ==
  SlopeLoops(elevations, lngs, lats, hav, TRUE)

calculateSlopeGrid(elevations, lngs, lats, hav) ==
  SlopeLoops(elevations, lngs, lats, hav, FALSE)

\* the elevation matrices, rectangular as sampleElevationGrid builds them,
\* their coordinate arrays and the distances between neighbouring samples
Elevations == {Null, <<0>>, <<100>>}

Shapes == {s \in (1..MaxSamples) \X (1..MaxSamples) : s[1] * s[2] <= MaxSamples}

Matrices == {<<>>} \cup UNION {[1..s[1] -> [1..s[2] -> Elevations]] : s \in Shapes}

GridCoords(n) == [k \in 1..n |-> 2 * k]

Havs == [right : {0, 100, 200}, up : {0, 100, 200}]

CalculateSlopeGrid ==
  /\ call = NoCall
  /\ \E elevations \in Matrices, hav \in Havs :
       LET lngs == GridCoords(IF elevations = <<>> THEN 0
                              ELSE Len(elevations[1]))
           lats == GridCoords(Len(elevations))
       IN call' = [fn |-> "calculateSlopeGrid",
                   elevations |-> elevations, lngs |-> lngs, lats |-> lats,
                   hav |-> hav,
                   result |-> calculateSlopeGrid(elevations, lngs, lats, hav)]
  /\ OnlyCall

-----------------------------------------------------------------------------
(* getSlopeColor and createSlopeGeoJSON                                    *)
(* (src/lib/cliff-detector.ts:299-373)                                     *)
(*                                                                         *)
(* Slopes and thresholds are tenths of a degree (182 = 18.2).  With        *)
(* diff = 10 * (slopeDegrees - minSlope), normalized is diff / 400 once    *)
(* clamped, normalized < 0.33 is diff < 132 and normalized < 0.66 is       *)
(* diff < 264.  The colour `rgba(r, g, b, a)` is the record of its four    *)
(* numbers, the alpha a as its numerator over 4000.  A polygon coordinate  *)
(* is carried doubled, so that cellSize / 2 stays an integer.              *)

\* largest slope coloured, in tenths of a degree
MaxSlopeTenths == 900

\* at most this many cells in a list given to createSlopeGeoJSON
MaxCells == 2

\* Math.round(p / q) for q > 0
MathRound(p, q) == (2 * p + q) \div (2 * q)

\* the three segments of the gradient, for normalized = diff / 400
SlopeGradient(diff) ==
  IF diff < 132
  THEN \* t = normalized / 0.33 = diff / 132
       [kind |-> "rgba", r |-> 255,
        g |-> MathRound(255 * 132 - diff * 100, 132), b |-> 0,
        a |-> 1200 + diff * 4]
  ELSE IF diff < 264
  THEN \* t = (normalized - 0.33) / 0.33 = (diff - 132) / 132
       [kind |-> "rgba", r |-> 255,
        g |-> MathRound(155 * 132 - (diff - 132) * 100, 132), b |-> 0,
        a |-> 2000 + diff * 3]
  ELSE \* t = (normalized - 0.66) / 0.34 = (diff - 264) / 136
       [kind |-> "rgba",
        r |-> MathRound(255 * 136 - (diff - 264) * 55, 136),
        g |-> MathRound(55 * 136 - (diff - 264) * 55, 136), b |-> 0,
        a |-> 2800 + diff * 2]

Transparent == [kind |-> "transparent"]

MathMin2(x, y) == IF x < y THEN x ELSE y

MathMax2(x, y) == IF x > y THEN x ELSE y

getSlopeColor_Unclamped(slopeDegrees, minSlope) ==
  IF slopeDegrees < minSlope THEN Transparent
  ELSE SlopeGradient(slopeDegrees - minSlope)

getSlopeColor_InclusiveThreshold(slopeDegrees, minSlope) ==
  IF slopeDegrees <= minSlope THEN Transparent
  ELSE SlopeGradient(MathMin2(400, MathMax2(0, slopeDegrees - minSlope)))

getSlopeColor(slopeDegrees, minSlope) ==
  IF slopeDegrees < minSlope THEN Transparent
  ELSE SlopeGradient(MathMin2(400, MathMax2(0, slopeDegrees - minSlope)))

\* the ring of the square around a cell
SquareRing_Open(cell, cellSize) ==
  <<<<2 * cell.lng - cellSize, 2 * cell.lat - cellSize>>,
    <<2 * cell.lng + cellSize, 2 * cell.lat - cellSize>>,
    <<2 * cell.lng + cellSize, 2 * cell.lat + cellSize>>,
    <<2 * cell.lng - cellSize, 2 * cell.lat + cellSize>>>>

SquareRing(cell, cellSize) ==
  <<<<2 * cell.lng - cellSize, 2 * cell.lat - cellSize>>,
    <<2 * cell.lng + cellSize, 2 * cell.lat - cellSize>>,
    <<2 * cell.lng + cellSize, 2 * cell.lat + cellSize>>,
    <<2 * cell.lng - cellSize, 2 * cell.lat + cellSize>>,
    <<2 * cell.lng - cellSize, 2 * cell.lat - cellSize>>>>

\* the feature pushed for a cell
SlopeFeature(cell, cellSize, minSlope) ==
  [type |-> "Feature",
   geometry |-> [type |-> "Polygon",
                 coordinates |-> <<SquareRing(cell, cellSize)>>],
   properties |-> [slope |-> cell.slope, elevation |-> cell.elevation,
                   color |-> getSlopeColor(cell.slope, minSlope)]]

createSlopeGeoJSON_NoFilter(cells, cellSize, minSlope) ==
  [type |-> "FeatureCollection",
   features |-> [k \in 1..Len(cells) |->
                   SlopeFeature(cells[k], cellSize, minSlope)]]

createSlopeGeoJSON(cells, cellSize, minSlope) ==
  LET RECURSIVE Features(_)
      Features(k) ==
        IF k > Len(cells) THEN <<>>
        ELSE IF cells[k].slope < minSlope THEN Features(k + 1)
        ELSE <<SlopeFeature(cells[k], cellSize, minSlope)>> \o Features(k + 1)
  IN [type |-> "FeatureCollection", features |-> Features(1)]

\* thresholds of the slider (5 to 45 degrees in steps of 5)
SliderThresholds == {50 * k : k \in 1..9}

GetSlopeColor ==
  /\ call = NoCall
  /\ \E slopeDegrees \in 0..MaxSlopeTenths, minSlope \in SliderThresholds :
       call' = [fn |-> "getSlopeColor",
                slopeDegrees |-> slopeDegrees, minSlope |-> minSlope,
                result |-> getSlopeColor(slopeDegrees, minSlope)]
  /\ OnlyCall

SlopeCells ==
  [lng : {0, 3}, lat : {1}, slope : {40, 150, 1000, 1200}, elevation : {0, 100}]

CellLists == UNION {[1..n -> SlopeCells] : n \in 0..MaxCells}

CreateSlopeGeoJSON ==
  /\ call = NoCall
  /\ \E cells \in CellLists, cellSize \in {1, 2}, minSlope \in {50, 150, 1000} :
       call' = [fn |-> "createSlopeGeoJSON",
                cells |-> cells, cellSize |-> cellSize, minSlope |-> minSlope,
                result |-> createSlopeGeoJSON(cells, cellSize, minSlope)]
  /\ OnlyCall

-----------------------------------------------------------------------------
(* calculateSlopeGrid followed by createSlopeGeoJSON, as the recomputation *)
(* runs them (src/app/page.tsx:292-300)                                    *)
(*                                                                         *)
(* The slope that calculateSlopeGrid computes with Math.atan is the number *)
(* createSlopeGeoJSON compares with minSlope.  ArctanTable lists, for the  *)
(* tenths of a degree t around the angles the matrices below produce,      *)
(* 10000 * tan(t / 10 degrees)^2 rounded up; an angle with squared tangent *)
(* n2 / d2 is t tenths, truncated, when n2 / d2 lies between the entries   *)
(* of t and of t + 1.                                                      *)

ArctanTable ==
  <<<<0, 0>>, <<1, 1>>, <<194, 1241>>, <<195, 1254>>, <<240, 1983>>,
    <<241, 2001>>, <<265, 2486>>, <<266, 2508>>, <<352, 4977>>,
    <<353, 5014>>, <<450, 10000>>, <<451, 10071>>>>

\* Math.atan(...) * (180 / Math.PI) as tenths of a degree, truncated
DegreesTenths(a) ==
  LET k == CHOOSE n \in 1..(Len(ArctanTable) - 1) :
             /\ ArctanTable[n + 1][1] = ArctanTable[n][1] + 1
             /\ ArctanTable[n][2] * a.d2 <= a.n2 * 10000
             /\ a.n2 * 10000 < ArctanTable[n + 1][2] * a.d2
  IN ArctanTable[k][1]

SlopePipeline ==
  /\ call = NoCall
  /\ \E elevations \in [1..2 -> [1..2 -> Elevations]], hav \in Havs,
        minSlope \in {50, 200, 400} :
       LET cells == calculateSlopeGrid(elevations, GridCoords(2),
                                       GridCoords(2), hav)
           inTenths == [k \in DOMAIN cells |->
                          [cells[k] EXCEPT !.slope = DegreesTenths(@)]]
       IN call' = [fn |-> "pipeline",
                   elevations |-> elevations, hav |-> hav,
                   minSlope |-> minSlope, slopeCells |-> cells,
                   result |-> createSlopeGeoJSON(inTenths, 2, minSlope)]
  /\ OnlyCall

-----------------------------------------------------------------------------
(* haversineDistance (src/lib/cliff-detector.ts:180-197)                   *)
(*                                                                         *)
(* Latitudes and longitudes are multiples of 60 degrees, where the sines   *)
(* and cosines the function takes are known exactly: the sine of a         *)
(* multiple of 30 degrees is [sgn, sq4], its sign and four times its       *)
(* square, and the cosine of a multiple of 60 degrees is a number of       *)
(* halves.  a is carried in sixteenths.  The result                        *)
(* R * 2 * atan2(sqrt(a), sqrt(1 - a)) grows with a from 0 at a = 0 to     *)
(* R * PI at a = 1 and is not a number for a > 1: it is carried as a.      *)

\* Math.sin(deg * (Math.PI / 180)) for deg a multiple of 30 in -180..180
SinDegrees(deg) ==
  [sgn |-> IF MathAbs(deg) = 180 THEN 0 ELSE Sgn(deg),
   sq4 |-> CASE MathAbs(deg) \in {0, 180} -> 0
             [] MathAbs(deg) \in {30, 150} -> 1
             [] MathAbs(deg) \in {60, 120} -> 3
             [] MathAbs(deg) = 90 -> 4]

\* 2 * Math.cos(deg * (Math.PI / 180)) for deg a multiple of 60 in -60..60
CosDegrees(deg) == IF deg = 0 THEN 2 ELSE 1

haversineDistance_OneLatitude(lat1, lng1, lat2, lng2) ==
  LET dLat == lat2 - lat1
      dLng == lng2 - lng1
      sinLat == SinDegrees(dLat \div 2)
      sinLng == SinDegrees(dLng \div 2)
      a == 4 * (sinLat.sgn * sinLat.sgn * sinLat.sq4)
             + CosDegrees(lat1) * CosDegrees(lat1)
                 * (sinLng.sgn * sinLng.sgn * sinLng.sq4)
  IN [a16 |-> a]

haversineDistance(lat1, lng1, lat2, lng2) ==
  LET dLat == lat2 - lat1
      dLng == lng2 - lng1
      sinLat == SinDegrees(dLat \div 2)
      sinLng == SinDegrees(dLng \div 2)
      a == 4 * (sinLat.sgn * sinLat.sgn * sinLat.sq4)
             + CosDegrees(lat1) * CosDegrees(lat2)
                 * (sinLng.sgn * sinLng.sgn * sinLng.sq4)
  IN [a16 |-> a]

HaversineDistance ==
  /\ call = NoCall
  /\ \E lat1 \in {-60, 0, 60}, lat2 \in {-60, 0, 60},
        lng1 \in {-180, -120, -60, 0, 60, 120, 180},
        lng2 \in {-180, -120, -60, 0, 60, 120, 180} :
       call' = [fn |-> "haversineDistance",
                lat1 |-> lat1, lng1 |-> lng1, lat2 |-> lat2, lng2 |-> lng2,
                result |-> haversineDistance(lat1, lng1, lat2, lng2)]
  /\ OnlyCall

-----------------------------------------------------------------------------
(* detectCliffs (src/lib/cliff-detector.ts:56-105)                         *)
(*                                                                         *)
(* An entry of the elevation matrix is null, NaN or a number.  resolution  *)
(* is a positive number of metres per pixel and horizontalDist is not      *)
(* negative; actualDistance is carried as a distance [sgn, sq] and the two *)
(* angles as [sgn, n2, d2], as above.                                      *)

\* largest resolution, horizontalDist and heightDiff detectCliffs is given
MaxResolution == 2

MaxHorizontalDist == 3

MaxHeightDiff == 2

CliffElevations ==
  {[kind |-> "null", v |-> 0], [kind |-> "NaN", v |-> 0],
   [kind |-> "number", v |-> 0], [kind |-> "number", v |-> 2]}

\* the matrices of 0 x 0, 1 x 0, 1 x 3, 3 x 1 and 2 x 2 entries
CliffMatrices ==
  UNION {[1..s[1] -> [1..s[2] -> CliffElevations]] :
           s \in {<<0, 0>>, <<1, 0>>, <<1, 3>>, <<3, 1>>, <<2, 2>>}}

\* neither elev === null nor isNaN(elev)
IsNumber(elev) == elev.kind = "number"

\* Math.ceil(p / q) for q > 0
MathCeil(p, q) == 0 - ((0 - p) \div q)

\* a >= b of two angles; a comparison with NaN is false
AngleGeq(a, b) ==
  /\ ~(a.n2 = 0 /\ a.d2 = 0)
  /\ ~(b.n2 = 0 /\ b.d2 = 0)
  /\ ~AngleLess(a, b)

\* lines 74-94: the pixel (dy, dx) away from (y, x) makes (y, x) a cliff
CliffNeighbour_SquareWindow(elevationData, resolution, params, y, x, dy, dx) ==
  LET height == Len(elevationData)
      width == IF height = 0 THEN 0 ELSE Len(elevationData[1])
      nx == x + dx
      ny == y + dy
  IN /\ ~(dx = 0 /\ dy = 0)
     /\ ~(nx < 0 \/ nx >= width \/ ny < 0 \/ ny >= height)
     /\ IsNumber(elevationData[ny + 1][nx + 1])
     /\ LET currentElev == elevationData[y + 1][x + 1].v
            neighborElev == elevationData[ny + 1][nx + 1].v
            sqrt == MathSqrt(dx * dx + dy * dy)
            actualDistance ==
              [sgn |-> sqrt.sgn * Sgn(resolution),
               sq |-> sqrt.sq * resolution * resolution]
            elevDiff == MathAbs(currentElev - neighborElev)
            slopeAngle ==
              calculateSlopeAngle_cliffDetector(elevDiff, actualDistance)
            minAngle ==
              calculateSlopeAngle_cliffDetector(
                params.heightDiff, Distance(params.horizontalDist))
        IN AngleGeq(slopeAngle, minAngle)
CliffNeighbour(elevationData, resolution, params, y, x, dy, dx) ==
  LET height == Len(elevationData)
      width == IF height = 0 THEN 0 ELSE Len(elevationData[1])
      nx == x + dx
      ny == y + dy
  IN /\ ~(dx = 0 /\ dy = 0)
     /\ ~(nx < 0 \/ nx >= width \/ ny < 0 \/ ny >= height)
     /\ IsNumber(elevationData[ny + 1][nx + 1])
     /\ LET currentElev == elevationData[y + 1][x + 1].v
            neighborElev == elevationData[ny + 1][nx + 1].v
            sqrt == MathSqrt(dx * dx + dy * dy)
            actualDistance ==
              [sgn |-> sqrt.sgn * Sgn(resolution),
               sq |-> sqrt.sq * resolution * resolution]
            elevDiff == MathAbs(currentElev - neighborElev)
            slopeAngle ==
              calculateSlopeAngle_cliffDetector(elevDiff, actualDistance)
            minAngle ==
              calculateSlopeAngle_cliffDetector(
                params.heightDiff, Distance(params.horizontalDist))
        IN \* both distances are non-negative
           /\ ~(actualDistance.sq > params.horizontalDist * params.horizontalDist)
           /\ AngleGeq(slopeAngle, minAngle)

\* the mask entry of (y, x) becomes true at the first (dy, dx) of the two
\* loops that makes it a cliff, and the loops break there
detectCliffs(elevationData, resolution, params) ==
  LET height == Len(elevationData)
      width == IF height = 0 THEN 0 ELSE Len(elevationData[1])
      pixelDistance == MathCeil(params.horizontalDist, resolution)
  IN [row \in 1..height |->
       [col \in 1..width |->
          /\ IsNumber(elevationData[row][col])
          /\ \E dy \in (0 - pixelDistance)..pixelDistance,
                dx \in (0 - pixelDistance)..pixelDistance :
               CliffNeighbour(elevationData, resolution, params,
                              row - 1, col - 1, dy, dx)]]

DetectCliffs ==
  /\ call = NoCall
  /\ \E elevationData \in CliffMatrices, resolution \in 1..MaxResolution,
        horizontalDist \in 0..MaxHorizontalDist,
        heightDiff \in (0 - 1)..MaxHeightDiff :
       LET params == [heightDiff |-> heightDiff,
                      horizontalDist |-> horizontalDist]
       IN call' = [fn |-> "detectCliffs",
                   elevationData |-> elevationData, resolution |-> resolution,
                   params |-> params,
                   result |-> detectCliffs(elevationData, resolution, params)]
  /\ OnlyCall

-----------------------------------------------------------------------------
(* Calls of the slope utilities                                            *)

InitSlope ==
  /\ reqs = <<>>
  /\ TileIdle
  /\ DemIdle
  /\ CallIdle /\ ReadoutIdle

NextSlope ==
  \/ CalculateSlopeAngle_cliffDetector
  \/ CalculateSlopeAngle
  \/ SampleElevationGrid
  \/ CalculateSlopeGrid
  \/ GetSlopeColor
  \/ CreateSlopeGeoJSON
  \/ SlopePipeline
  \/ HaversineDistance
  \/ DetectCliffs

SpecSlope == InitSlope /\ [][NextSlope]_vars

-----------------------------------------------------------------------------
(* Claims about the slope utilities                                        *)

Sampled == call.fn = "sampleElevationGrid"

\* C14: for every grid size N >= 1 and bounding box, sampleElevationGrid
\* returns lngs and lats of length N + 1 with lngs[i] = west + i * (east -
\* west) / N and lats[j] = south + j * (north - south) / N, and an
\* (N + 1) x (N + 1) matrix whose entry (j, i) is the answer of one query,
\* the one made at (lngs[i], lats[j]); (N + 1)^2 queries are made in all,
\* and a null answer is stored as null.
C14_SampleGrid ==
  Sampled =>
    LET N == call.gridSize
        b == call.bounds
        r == call.result
    IN /\ Len(r.lngs) = N + 1
       /\ Len(r.lats) = N + 1
       /\ \A i \in 0..N : r.lngs[i + 1] = b.west * N + i * (b.east - b.west)
       /\ \A j \in 0..N : r.lats[j + 1] = b.south * N + j * (b.north - b.south)
       /\ Len(r.elevations) = N + 1
       /\ Len(r.queries) = (N + 1) * (N + 1)
       /\ \A j \in 0..N :
            /\ Len(r.elevations[j + 1]) = N + 1
            /\ \A i \in 0..N :
                 LET k == j * (N + 1) + i + 1
                 IN /\ r.queries[k] = <<r.lngs[i + 1], r.lats[j + 1]>>
                    /\ r.elevations[j + 1][i + 1]
                         = queryTerrainElevation(call.map, k)

C14_Witness ==
  /\ Sampled
  /\ call.gridSize = 2
  /\ call.bounds = [west |-> -1, east |-> 2, south |-> 0, north |-> 3]
  /\ call.result.lngs = <<-2, 1, 4>>
  /\ call.result.elevations[2] = <<<<4>>, <<5>>, <<>>>>

GridCalled == call.fn = "calculateSlopeGrid"

\* the sample (j, i) a cell was computed for, both counted from 1
CellRow(c) == (c.lat - 1) \div 2

CellCol(c) == (c.lng - 1) \div 2

\* the right, up and diagonal neighbour samples of a cell
CellNeighbours(c) ==
  <<call.elevations[CellRow(c)][CellCol(c) + 1],
    call.elevations[CellRow(c) + 1][CellCol(c)],
    call.elevations[CellRow(c) + 1][CellCol(c) + 1]>>

\* C15 as stated: for every cell calculateSlopeGrid returns, at least one
\* of the right, up and diagonal neighbour samples of its position is
\* non-null.
C15_CellNeedsNeighbour ==
  GridCalled =>
    \A k \in DOMAIN call.result :
      \E n \in 1..3 : CellNeighbours(call.result[k])[n] # Null

\* the positions the loops visit
GridPositions ==
  {p \in (1..(Len(call.elevations) - 1)) \X (1..(Len(call.lngs) - 1)) : TRUE}

\* C15 amended: a slope cell exists exactly where the sample of its own
\* position is non-null: the cells are, in loop order, the positions
\* (j, i) with j < rows - 1 and i < cols - 1 whose own sample is non-null,
\* whatever their neighbours are.
C15_CellNeedsOwnSample ==
  GridCalled =>
    LET r == call.result
        Pos(k) == <<CellRow(r[k]), CellCol(r[k])>>
    IN /\ \A k \in DOMAIN r :
            /\ Pos(k) \in GridPositions
            /\ call.elevations[Pos(k)[1]][Pos(k)[2]] = <<r[k].elevation>>
       /\ \A k \in 1..(Len(r) - 1) :
            \/ Pos(k)[1] < Pos(k + 1)[1]
            \/ Pos(k)[1] = Pos(k + 1)[1] /\ Pos(k)[2] < Pos(k + 1)[2]
       /\ Len(r) = Cardinality({p \in GridPositions :
                                  call.elevations[p[1]][p[2]] # Null})

C15_Witness ==
  /\ GridCalled
  /\ call.elevations = <<<<<<100>>, Null>>, <<Null, Null>>>>
  /\ Len(call.result) = 1
  /\ call.result[1].elevation = 100

SlopeUtilsAngle == call.fn = "calculateSlopeAngle"

CliffDetectorAngle == call.fn = "calculateSlopeAngle_cliffDetector"

\* C17 as stated: calculateSlopeAngle(h, 0) is 90 degrees for every nonzero
\* h and calculateSlopeAngle(0, d) is 0 for every nonzero d, in the
\* slope-utils function and in the cliff-detector function.
C17_NinetyAtZeroDistance ==
  /\ SlopeUtilsAngle =>
       /\ (call.elevDiff # 0 /\ call.distance = 0) => IsDegrees90(call.result)
       /\ (call.elevDiff = 0 /\ call.distance # 0) => IsDegrees0(call.result)
  /\ CliffDetectorAngle =>
       /\ (call.heightDiff # 0 /\ call.horizontalDist = 0)
            => IsDegrees90(call.result)
       /\ (call.heightDiff = 0 /\ call.horizontalDist # 0)
            => IsDegrees0(call.result)

\* C17 amended: calculateSlopeAngle(0, d) is 0 for every nonzero d in both
\* functions; calculateSlopeAngle(h, 0) is 0 for every h in the slope-utils
\* function, and in the cliff-detector function it is 90 degrees for h > 0
\* and -90 degrees for h < 0.
C17_ZeroDistanceAngles ==
  /\ SlopeUtilsAngle =>
       /\ call.distance = 0 => call.result = ZeroDegrees
       /\ (call.elevDiff = 0 /\ call.distance # 0) => IsDegrees0(call.result)
  /\ CliffDetectorAngle =>
       /\ (call.heightDiff > 0 /\ call.horizontalDist = 0)
            => IsDegrees90(call.result)
       /\ (call.heightDiff < 0 /\ call.horizontalDist = 0)
            => IsDegreesMinus90(call.result)
       /\ (call.heightDiff = 0 /\ call.horizontalDist # 0)
            => IsDegrees0(call.result)

C17_Witness ==
  /\ SlopeUtilsAngle
  /\ call.elevDiff = 2
  /\ call.distance = 0
  /\ IsDegrees0(call.result)

GeoJSONCalled == call.fn = "createSlopeGeoJSON"

\* C18 as stated: createSlopeGeoJSON with minSlope = 100 returns no feature
\* for every list of cells, whatever their slopes.
C18_EmptyAtMinSlope100 ==
  (GeoJSONCalled /\ call.minSlope = 1000) => call.result.features = <<>>

\* C18 amended: createSlopeGeoJSON with minSlope = 100 returns no feature
\* exactly when every cell's slope is below 100 degrees; a cell whose slope
\* is 100 or more is emitted.
C18_EmptyBelow100 ==
  (GeoJSONCalled /\ call.minSlope = 1000) =>
    /\ (call.result.features = <<>>)
         <=> (\A k \in DOMAIN call.cells : call.cells[k].slope < 1000)
    /\ \A k \in DOMAIN call.result.features :
         call.result.features[k].properties.slope >= 1000

C18_Witness ==
  /\ GeoJSONCalled
  /\ call.minSlope = 1000
  /\ Len(call.cells) = 2
  /\ call.cells[1].slope = 150
  /\ call.cells[2].slope = 40
  /\ call.result.features = <<>>

\* C19: createSlopeGeoJSON emits one feature for each cell with
\* slope >= minSlope and none for the others, in input order; a feature is
\* a polygon with one ring of five coordinates, the first equal to the
\* last, around the axis-aligned square of side cellSize centred on the
\* cell, and carries the cell's slope and elevation and the colour
\* getSlopeColor(slope, minSlope).
C19_OneSquarePerSteepCell ==
  GeoJSONCalled =>
    LET Steep(c) == c.slope >= call.minSlope
        kept == SelectSeq(call.cells, Steep)
        fs   == call.result.features
        s    == call.cellSize
    IN /\ call.result.type = "FeatureCollection"
       /\ Len(fs) = Len(kept)
       /\ \A k \in DOMAIN fs :
            LET c    == kept[k]
                ring == fs[k].geometry.coordinates[1]
            IN /\ fs[k].type = "Feature"
               /\ fs[k].geometry.type = "Polygon"
               /\ Len(fs[k].geometry.coordinates) = 1
               /\ Len(ring) = 5
               /\ ring[1] = ring[5]
               /\ {ring[n] : n \in 1..4}
                    = {2 * c.lng - s, 2 * c.lng + s}
                        \X {2 * c.lat - s, 2 * c.lat + s}
               /\ \A n \in 1..4 :
                    (ring[n][1] = ring[n + 1][1]) # (ring[n][2] = ring[n + 1][2])
               /\ fs[k].properties.slope = c.slope
               /\ fs[k].properties.elevation = c.elevation
               /\ fs[k].properties.color = getSlopeColor(c.slope, call.minSlope)

C19_Witness ==
  /\ GeoJSONCalled
  /\ call.minSlope = 150
  /\ call.cellSize = 1
  /\ call.cells = <<[lng |-> 0, lat |-> 1, slope |-> 40, elevation |-> 0],
                    [lng |-> 3, lat |-> 1, slope |-> 150, elevation |-> 100]>>
  /\ Len(call.result.features) = 1
  /\ call.result.features[1].geometry.coordinates
       = <<<<<<5, 1>>, <<7, 1>>, <<7, 3>>, <<5, 3>>, <<5, 1>>>>>>

ColorCalled == call.fn = "getSlopeColor"

C21_FlatGridIsAllZero ==
  (/\ GridCalled
   /\ call.elevations # <<>>
   /\ \A j \in DOMAIN call.elevations : \A i \in DOMAIN call.elevations[j] :
        /\ call.elevations[j][i] # Null
        /\ call.elevations[j][i] = call.elevations[1][1]
   /\ call.hav.right > 0
   /\ call.hav.up > 0)
  => /\ Len(call.result)
          = (Len(call.elevations) - 1) * (Len(call.elevations[1]) - 1)
     /\ \A k \in DOMAIN call.result : IsDegrees0(call.result[k].slope)

C21_Witness ==
  /\ GridCalled
  /\ call.elevations = <<<<<<100>>, <<100>>, <<100>>>>,
                         <<<<100>>, <<100>>, <<100>>>>>>
  /\ call.hav = [right |-> 100, up |-> 200]
  /\ Len(call.result) = 2
  /\ IsDegrees0(call.result[1].slope)
  /\ IsDegrees0(call.result[2].slope)

\* C22: for the matrix [[0, 0], [0, 100]] with 100 m between neighbouring
\* samples calculateSlopeGrid returns one cell, whose slope is the diagonal
\* slope atan(100 / (100 * sqrt(2))), 35.2 degrees truncated to a tenth,
\* and createSlopeGeoJSON with minSlope = 5 returns one polygon feature
\* that carries this slope.
C22_EndToEnd ==
  (/\ call.fn = "pipeline"
   /\ call.elevations = <<<<<<0>>, <<0>>>>, <<<<0>>, <<100>>>>>>
   /\ call.hav = [right |-> 100, up |-> 100]
   /\ call.minSlope = 50)
  => /\ Len(call.slopeCells) = 1
     /\ call.slopeCells[1].slope
          = calculateSlopeAngle(100, MathSqrt(100 * 100 + 100 * 100))
     /\ call.slopeCells[1].slope.n2 * 2 = call.slopeCells[1].slope.d2
     /\ Len(call.result.features) = 1
     /\ call.result.features[1].geometry.type = "Polygon"
     /\ call.result.features[1].properties.slope = 352

C22_Witness ==
  /\ call.fn = "pipeline"
  /\ call.elevations = <<<<<<0>>, <<0>>>>, <<<<0>>, <<100>>>>>>
  /\ call.hav = [right |-> 100, up |-> 100]
  /\ call.minSlope = 50
  /\ Len(call.result.features) = 1
  /\ call.result.features[1].properties.slope = 352

\* C23: haversineDistance is symmetric in its two points, it is 0 from a
\* point to itself, and its result is never negative.
C23_HaversineSymmetric ==
  call.fn = "haversineDistance" =>
    /\ call.result
         = haversineDistance(call.lat2, call.lng2, call.lat1, call.lng1)
    /\ (call.lat1 = call.lat2 /\ call.lng1 = call.lng2) => call.result.a16 = 0
    /\ call.result.a16 \in 0..16

C23_Witness ==
  /\ call.fn = "haversineDistance"
  /\ call.lat1 = 60 /\ call.lng1 = -120
  /\ call.lat2 = 0 /\ call.lng2 = 60
  /\ call.result.a16 = 12

\* C24: a debounced recomputation writes computed features to the
\* slope-data source only if, at the moment it fires, highlighting is
\* enabled and the zoom is at least 10: no step puts features into a
\* source while highlighting is off or the zoom is below 10.
C24_WritesOnlyWhenEnabled ==
  [][\A i \in DOMAIN dem.insts :
       (dem.insts[i].data # "features" /\ dem'.insts[i].data = "features")
         => (dem.showCliffs /\ dem.insts[i].zoom >= 10)]_vars

\* C25: once the component is unmounted and its map removed, no scheduled
\* callback runs the slope pipeline: every recomputation that was pending
\* at unmount has been cancelled (the timers of the slope-update effect
\* find map.current null and return, the recomputation has no such test).
C25_NoRecomputationAfterUnmount ==
  dem.phase = "gone" => DebouncePending = {}

-----------------------------------------------------------------------------
(* The pointer readout of the two map components (app/page.tsx and         *)
(* app/map/components/DemMap.tsx).  The terrain query answers null or an   *)
(* elevation, here in tenths of a metre; a pointer position is a pair      *)
(* <<lng, lat>>.                                                           *)

PointerPositions == {<<10, 46>>, <<11, 47>>}

TerrainAnswers == {<<>>, <<-15>>, <<4>>, <<15>>}

PointerEvent(e, c, lngLat, elev) ==
  [event |-> e, component |-> c, lngLat |-> lngLat, elev |-> elev]

\* mousemove of the main page
MouseMovePage_AlwaysCoordinates ==
  \E lngLat \in PointerPositions, elev \in TerrainAnswers :
    /\ readout' =
         [readout EXCEPT
            !.page = [elevation |-> IF elev # <<>>
                                      THEN <<MathRound(elev[1], 10)>>
                                      ELSE @.elevation,
                      coordinates |-> <<[lat |-> lngLat[2], lng |-> lngLat[1]]>>],
            !.last = PointerEvent("mousemove", "page", lngLat, elev)]
    /\ UNCHANGED <<reqs, tileVars, dem, call>>
MouseMovePage ==
  \E lngLat \in PointerPositions, elev \in TerrainAnswers :
    /\ readout' =
         [readout EXCEPT
            !.page = IF elev # <<>>
                       THEN [elevation |-> <<MathRound(elev[1], 10)>>,
                             coordinates |-> <<[lat |-> lngLat[2], lng |-> lngLat[1]]>>]
                       ELSE @,
            !.last = PointerEvent("mousemove", "page", lngLat, elev)]
    /\ UNCHANGED <<reqs, tileVars, dem, call>>

\* mouseout of the main page
MouseOutPage ==
  /\ readout' = [readout EXCEPT !.page = [elevation |-> <<>>, coordinates |-> <<>>],
                                !.last = PointerEvent("mouseout", "page", <<>>, <<>>)]
  /\ UNCHANGED <<reqs, tileVars, dem, call>>

\* mousemove of the map view component
MouseMoveDemMap ==
  \E lngLat \in PointerPositions, elev \in TerrainAnswers :
    /\ readout' =
         [readout EXCEPT
            !.demMap = IF elev # <<>>
                         THEN [elevation |-> <<MathRound(elev[1], 10)>>,
                               coordinates |-> <<[lat |-> lngLat[2], lng |-> lngLat[1]]>>]
                         ELSE @,
            !.last = PointerEvent("mousemove", "demMap", lngLat, elev)]
    /\ UNCHANGED <<reqs, tileVars, dem, call>>

\* mouseout of the map view component
MouseOutDemMap ==
  /\ readout' = [readout EXCEPT !.demMap = [elevation |-> <<>>, coordinates |-> <<>>],
                                !.last = PointerEvent("mouseout", "demMap", <<>>, <<>>)]
  /\ UNCHANGED <<reqs, tileVars, dem, call>>

InitReadout ==
  /\ reqs = <<>>
  /\ TileIdle
  /\ DemIdle
  /\ CallIdle
  /\ ReadoutIdle

NextReadout ==
  \/ MouseMovePage
  \/ MouseOutPage
  \/ MouseMoveDemMap
  \/ MouseOutDemMap

SpecReadout == InitReadout /\ [][NextReadout]_vars

-----------------------------------------------------------------------------
(* Claims about the pointer readout                                        *)

ReadoutOf(r, c) == IF c = "page" THEN r.page ELSE r.demMap

ReadoutComponents == {"page", "demMap"}

\* C27: in both map components the displayed elevation and coordinates are
\* always both null or both set; a pointer move whose terrain query answers
\* an elevation sets both to that event's values (the elevation rounded to a
\* whole metre), a pointer move whose query answers null changes neither,
\* and a pointer leaving the map sets both to null.
C27_ReadoutPairedAndFollowsEvents ==
  /\ [](\A c \in ReadoutComponents :
          (ReadoutOf(readout, c).elevation = <<>>)
            <=> (ReadoutOf(readout, c).coordinates = <<>>))
  /\ [][\A c \in ReadoutComponents :
          LET e == readout'.last
              before == ReadoutOf(readout, c)
              after == ReadoutOf(readout', c)
          IN  /\ e.component # c => after = before
              /\ (e.component = c /\ e.event = "mousemove" /\ e.elev # <<>>)
                   => /\ after.elevation = <<(e.elev[1] + 5) \div 10>>
                      /\ after.coordinates = <<[lat |-> e.lngLat[2], lng |-> e.lngLat[1]]>>
              /\ (e.component = c /\ e.event = "mousemove" /\ e.elev = <<>>)
                   => after = before
              /\ (e.component = c /\ e.event = "mouseout")
                   => after = NoPointer]_vars

\* a pointer move without terrain under it, handled while a readout is shown
C27_Witness ==
  /\ readout.last.event = "mousemove"
  /\ readout.last.elev = <<>>
  /\ ReadoutOf(readout, readout.last.component).elevation # <<>>
  /\ ReadoutOf(readout, readout.last.component).coordinates # <<>>

-----------------------------------------------------------------------------
(* The colour mapper and the assembler together                            *)

\* C28: getSlopeColor and createSlopeGeoJSON agree on the threshold: no
\* feature returned by createSlopeGeoJSON carries the colour 'transparent',
\* and every input cell that getSlopeColor(cell.slope, minSlope) does not
\* make transparent appears as a feature (the features are those cells, in
\* input order, each around its cell with the cell's slope and elevation).
C28_MapperAndAssemblerAgree ==
  GeoJSONCalled =>
    LET Coloured(c) == getSlopeColor(c.slope, call.minSlope) # Transparent
        shown == SelectSeq(call.cells, Coloured)
        fs    == call.result.features
    IN /\ \A k \in DOMAIN fs : fs[k].properties.color # Transparent
       /\ Len(fs) = Len(shown)
       /\ \A k \in DOMAIN shown :
            /\ fs[k].properties.slope = shown[k].slope
            /\ fs[k].properties.elevation = shown[k].elevation
            /\ fs[k].geometry.coordinates[1][1]
                 = <<2 * shown[k].lng - call.cellSize,
                     2 * shown[k].lat - call.cellSize>>

\* a cell exactly at the threshold is shown, coloured, and one below is not
C28_Witness ==
  /\ GeoJSONCalled
  /\ call.minSlope = 150
  /\ Len(call.cells) = 2
  /\ call.cells[1].slope = 150
  /\ call.cells[2].slope = 40
  /\ Len(call.result.features) = 1
  /\ call.result.features[1].properties.color.kind = "rgba"

-----------------------------------------------------------------------------
(* getCogProtocolUrl (src/unnamed/part_000:48-68) and the path its URL     *)
(* hands to the proxy route /api/cog/[...path] (src/app/page.tsx:70-78)    *)

\* values of window.location.origin
Origins == {"http://localhost:3000", "https://cliff-map.example"}

getCogProtocolUrl_NoPad(lat, lon, origin) ==
  LET tileLat == MathFloor(lat)
      tileLon == MathFloor(lon)
      latPrefix == IF tileLat >= 0 THEN "N" ELSE "S"
      lonPrefix == IF tileLon >= 0 THEN "E" ELSE "W"
      latStr == NumberToString(MathAbs(tileLat))
      lonStr == NumberToString(MathAbs(tileLon))
      tileName == "Copernicus_DSM_COG_10_" \o latPrefix \o latStr \o "_00_"
                    \o lonPrefix \o lonStr \o "_00_DEM"
      proxyPath == "/api/cog/" \o tileName \o "/" \o tileName \o ".tif"
  IN  "cog://" \o origin \o proxyPath \o "#dem"

getCogProtocolUrl(lat, lon, origin) ==
  LET tileLat == MathFloor(lat)
      tileLon == MathFloor(lon)
      latPrefix == IF tileLat >= 0 THEN "N" ELSE "S"
      lonPrefix == IF tileLon >= 0 THEN "E" ELSE "W"
      latStr == PadStart(NumberToString(MathAbs(tileLat)), 2, "0")
      lonStr == PadStart(NumberToString(MathAbs(tileLon)), 3, "0")
      tileName == "Copernicus_DSM_COG_10_" \o latPrefix \o latStr \o "_00_"
                    \o lonPrefix \o lonStr \o "_00_DEM"
      proxyPath == "/api/cog/" \o tileName \o "/" \o tileName \o ".tif"
  IN  "cog://" \o origin \o proxyPath \o "#dem"

RECURSIVE SplitPath(_)
\* the segments of a path, which are separated by "/"
SplitPath(str) ==
  LET slash == CHOOSE k \in 1..(Len(str) + 1) :
                 /\ k = Len(str) + 1 \/ SubSeq(str, k, k) = "/"
                 /\ \A j \in 1..(k - 1) : SubSeq(str, j, j) # "/"
  IN IF slash > Len(str) THEN <<str>>
     ELSE <<SubSeq(str, 1, slash - 1)>>
            \o SplitPath(SubSeq(str, slash + 1, Len(str)))

\* params.path of the route /api/cog/[...path] for the request that the
\* URL cog://<request URL>#dem of a tile on this origin leads to
CatchAllPath(cogUrl, origin) ==
  LET requestUrl == SubSeq(cogUrl, Len("cog://") + 1, Len(cogUrl) - Len("#dem"))
  IN SplitPath(SubSeq(requestUrl, Len(origin) + Len("/api/cog/") + 1,
                      Len(requestUrl)))

GetCogProtocolUrl ==
  /\ call = NoCall
  /\ \E in \in TileInputs, origin \in Origins :
       LET url == getCogProtocolUrl(in[1], in[2], origin)
       IN call' = [fn |-> "getCogProtocolUrl",
                   lat |-> in[1], lon |-> in[2], origin |-> origin,
                   result |-> url, path |-> CatchAllPath(url, origin)]
  /\ OnlyCall

InitCog ==
  /\ reqs = <<>>
  /\ TileIdle
  /\ DemIdle
  /\ CallIdle
  /\ ReadoutIdle

NextCog == GetCogProtocolUrl

SpecCog == InitCog /\ [][NextCog]_vars

\* C29: getCogProtocolUrl and getCopernicusTileUrl derive the same tile for
\* every (lat, lon): the URL is cog://<origin>/api/cog/<name>/<name>.tif#dem,
\* and the path the proxy receives from it, <name>/<name>.tif, appended to
\* the fixed bucket origin is exactly getCopernicusTileUrl(lat, lon).
C29_CogUrlNamesTheSameTile ==
  call.fn = "getCogProtocolUrl" =>
    /\ Len(call.path) = 2
    /\ call.path[2] = call.path[1] \o ".tif"
    /\ call.result = "cog://" \o call.origin \o "/api/cog/" \o call.path[1]
                       \o "/" \o call.path[2] \o "#dem"
    /\ S3Url(call.path) = getCopernicusTileUrl(call.lat, call.lon)

\* the tile of a point just south of the equator and west of Greenwich
C29_Witness ==
  /\ call.fn = "getCogProtocolUrl"
  /\ call.lat = -5
  /\ call.lon = -123
  /\ call.origin = "http://localhost:3000"
  /\ call.path = <<"Copernicus_DSM_COG_10_S01_00_W013_00_DEM",
                   "Copernicus_DSM_COG_10_S01_00_W013_00_DEM.tif">>

-----------------------------------------------------------------------------
(* Claims about detectCliffs                                               *)

CliffsCalled == call.fn = "detectCliffs"

\* the cells of the matrix given to detectCliffs, as <<row, column>>
CliffCells ==
  {c \in (1..3) \X (1..3) :
     /\ c[1] <= Len(call.elevationData)
     /\ c[2] <= Len(call.elevationData[c[1]])}

\* the squared number of pixels between two cells
PixelsSquared(c, d) ==
  (c[1] - d[1]) * (c[1] - d[1]) + (c[2] - d[2]) * (c[2] - d[2])

\* sqrt(dx^2 + dy^2) * resolution <= horizontalDist
WithinHorizontalDist(c, d) ==
  PixelsSquared(c, d) * call.resolution * call.resolution
    <= call.params.horizontalDist * call.params.horizontalDist

\* atan(|elevation difference| / distance) >= atan(heightDiff / horizontalDist)
\* for two cells a positive distance apart and horizontalDist > 0: the
\* tangents compare as the angles do, and squares compare as the tangents
\* do when heightDiff is positive
SteepEnough(c, d) ==
  LET diff == call.elevationData[c[1]][c[2]].v - call.elevationData[d[1]][d[2]].v
  IN \/ call.params.heightDiff <= 0
     \/ diff * diff * call.params.horizontalDist * call.params.horizontalDist
          >= call.params.heightDiff * call.params.heightDiff
               * PixelsSquared(c, d) * call.resolution * call.resolution

\* C30: detectCliffs returns a mask with the dimensions of the elevation
\* matrix in which a cell is true exactly when its own elevation is a number
\* and some other cell of the matrix with a numeric elevation lies within
\* horizontalDist of it with a slope of at least
\* atan(heightDiff / horizontalDist); hence every flagged cell has a flagged
\* cell within horizontalDist, and with heightDiff > 0 a flat matrix gives
\* an all-false mask.
C30_CliffMask ==
  CliffsCalled =>
    LET data == call.elevationData
        mask == call.result
        Numeric(c) == data[c[1]][c[2]].kind = "number"
    IN /\ Len(mask) = Len(data)
       /\ \A y \in DOMAIN data : Len(mask[y]) = Len(data[y])
       /\ \A c \in CliffCells :
            mask[c[1]][c[2]]
              <=> /\ Numeric(c)
                  /\ \E d \in CliffCells \ {c} :
                       /\ Numeric(d)
                       /\ WithinHorizontalDist(c, d)
                       /\ SteepEnough(c, d)
       /\ \A c \in CliffCells :
            mask[c[1]][c[2]]
              => \E d \in CliffCells \ {c} :
                   mask[d[1]][d[2]] /\ WithinHorizontalDist(c, d)
       /\ (/\ call.params.heightDiff > 0
           /\ \A c, d \in CliffCells :
                (Numeric(c) /\ Numeric(d)) => data[c[1]][c[2]].v = data[d[1]][d[2]].v)
            => \A c \in CliffCells : ~mask[c[1]][c[2]]

\* two numeric cells on a diagonal, sqrt(2) apart and within 2, with a null
\* and a NaN beside them
C30_Witness ==
  /\ CliffsCalled
  /\ call.resolution = 1
  /\ call.params = [heightDiff |-> 1, horizontalDist |-> 2]
  /\ call.elevationData
       = <<<<[kind |-> "number", v |-> 0], [kind |-> "null", v |-> 0]>>,
           <<[kind |-> "NaN", v |-> 0], [kind |-> "number", v |-> 2]>>>>
  /\ call.result = <<<<TRUE, FALSE>>, <<FALSE, TRUE>>>>

====
